---- MODULE Spec2Model ----
(***************************************************************************)
(* State-machine model of the content pipeline of ai-marketing-agent:      *)
(*   core/agent_engine.py   AgentEngine (the pipeline orchestrator)        *)
(*   core/memory_system.py  BrandMemory, FeedbackManager, PostsHistory     *)
(*   core/model_router.py   BaseProvider, GroqProvider, ModelRouter        *)
(*                                                                         *)
(* Text is modelled as a sequence of one-character strings, so that        *)
(* str.lower(), the "in" substring test and the regular expressions of     *)
(* _extract_score are computed rather than assumed.  Letters outside ASCII *)
(* are written as named characters ("l-stroke" for the Polish l with       *)
(* stroke).  Scores are floats in the code; the model keeps them as        *)
(* integers in hundredths (7.0 is 700).                                    *)
(***************************************************************************)
EXTENDS Integers, Sequences, FiniteSets, TLC

(***************************************************************************)
(* Text primitives                                                         *)
(***************************************************************************)

UPPER == <<"A", "B", "C", "D", "E", "F", "G", "H", "I", "J", "K", "L", "M", "N", "O", "P", "Q", "R", "S", "T", "U", "V", "W", "X", "Y", "Z", "L-stroke", "S-acute">>

LOWER == <<"a", "b", "c", "d", "e", "f", "g", "h", "i", "j", "k", "l", "m", "n", "o", "p", "q", "r", "s", "t", "u", "v", "w", "x", "y", "z", "l-stroke", "s-acute">>

\* str.lower() on one character
LowerChar(c) ==
    IF \E i \in 1..Len(UPPER) : UPPER[i] = c
    THEN LOWER[CHOOSE i \in 1..Len(UPPER) : UPPER[i] = c]
    ELSE c

\* str.lower()
Lower(s) == [i \in 1..Len(s) |-> LowerChar(s[i])]

\* Python's "t in s" on strings
Contains(t, s) ==
    \E i \in 0..(Len(s) - Len(t)) : SubSeq(s, i + 1, i + Len(t)) = t

\* str.join
RECURSIVE Join(_, _)
Join(sep, parts) ==
    IF Len(parts) = 0 THEN <<>>
    ELSE IF Len(parts) = 1 THEN parts[1]
    ELSE parts[1] \o sep \o Join(sep, Tail(parts))

Min(a, b) == IF a <= b THEN a ELSE b

Max(a, b) == IF a >= b THEN a ELSE b

(***************************************************************************)
(* AgentEngine._extract_score                                              *)
(***************************************************************************)

DIGITS == <<"0", "1", "2", "3", "4", "5", "6", "7", "8", "9">>

IsDigit(c) == \E i \in 1..Len(DIGITS) : DIGITS[i] = c

DigitVal(c) == (CHOOSE i \in 1..Len(DIGITS) : DIGITS[i] = c) - 1

\* the regex class \s
IsSpace(c) == c \in {" ", "\t", "\n", "\r"}

\* the regex class [:\s]
IsSep(c) == c = ":" \/ IsSpace(c)

\* length of the longest run of digits (\d+) starting at position i
RECURSIVE DigitRun(_, _)
DigitRun(s, i) ==
    IF i >= 1 /\ i <= Len(s) /\ IsDigit(s[i]) THEN 1 + DigitRun(s, i + 1) ELSE 0

\* length of the longest run of whitespace (\s*) starting at position i
RECURSIVE SpaceRun(_, _)
SpaceRun(s, i) ==
    IF i >= 1 /\ i <= Len(s) /\ IsSpace(s[i]) THEN 1 + SpaceRun(s, i + 1) ELSE 0

\* length of the longest run of [:\s] starting at position i
RECURSIVE SepRun(_, _)
SepRun(s, i) ==
    IF i >= 1 /\ i <= Len(s) /\ IsSep(s[i]) THEN 1 + SepRun(s, i + 1) ELSE 0

\* the position after the greedy match of \d+(?:\.\d+)? begun at digit i
NumEnd(s, i) ==
    LET j == i + DigitRun(s, i)
    IN  IF j <= Len(s) /\ s[j] = "." /\ DigitRun(s, j + 1) >= 1
        THEN j + 1 + DigitRun(s, j + 1)
        ELSE j

RECURSIVE IntVal(_)
IntVal(ds) ==
    IF Len(ds) = 0 THEN 0
    ELSE 10 * IntVal(SubSeq(ds, 1, Len(ds) - 1)) + DigitVal(ds[Len(ds)])

\* one score point in the model's integer scale (hundredths)
ScoreScale == 10 * 10

\* float(match.group(1)) of the number s[i..e-1], in hundredths (fraction
\* digits after the second are dropped)
FloatOf(s, i, e) ==
    LET k == DigitRun(s, i)
        whole == IntVal(SubSeq(s, i, i + k - 1))
        frac == SubSeq(s, i + k + 1, e - 1)
        f1 == IF Len(frac) >= 1 THEN DigitVal(frac[1]) ELSE 0
        f2 == IF Len(frac) >= 2 THEN DigitVal(frac[2]) ELSE 0
    IN  whole * ScoreScale + f1 * 10 + f2

\* \s*/\s*10 matches at position e
TailOf10(s, e) ==
    LET a == e + SpaceRun(s, e)
        b == a + 1 + SpaceRun(s, a + 1)
    IN  /\ a <= Len(s) /\ s[a] = "/"
        /\ b + 1 <= Len(s) /\ s[b] = "1" /\ s[b + 1] = "0"

\* start positions where (\d+(?:\.\d+)?)\s*/\s*10 matches
StartsOf10(s) ==
    {i \in 1..Len(s) : IsDigit(s[i]) /\ TailOf10(s, NumEnd(s, i))}

\* start positions where <label>[:\s]+(\d+(?:\.\d+)?) matches
StartsLabel(s, label) ==
    {i \in 1..Len(s) :
        /\ i + Len(label) - 1 <= Len(s)
        /\ SubSeq(s, i, i + Len(label) - 1) = label
        /\ SepRun(s, i + Len(label)) >= 1
        /\ LET d == i + Len(label) + SepRun(s, i + Len(label))
           IN  d <= Len(s) /\ IsDigit(s[d])}

\* where the captured number of a label match begun at i starts
LabelNum(s, i, label) == i + Len(label) + SepRun(s, i + Len(label))

LeastOf(S) == CHOOSE i \in S : \A j \in S : i <= j

S_score == <<"s", "c", "o", "r", "e">>

S_ocena == <<"o", "c", "e", "n", "a">>

\* ^(\d+(?:\.\d+)?)/10 matches
AnchoredOf10(s) ==
    /\ Len(s) >= 1 /\ IsDigit(s[1])
    /\ LET e == NumEnd(s, 1)
       IN  e + 2 <= Len(s) /\ s[e] = "/" /\ s[e + 1] = "1" /\ s[e + 2] = "0"

Clamp(v) == Min(10 * ScoreScale, Max(0, v))

\* mutant of DEFAULT_SCORE: a critique without a score counts as good
DEFAULT_SCORE_passing == 8 * ScoreScale

DEFAULT_SCORE == 5 * ScoreScale

ExtractScore(critique_text) ==
    LET s == Lower(critique_text)
    IN  IF StartsOf10(s) # {}
        THEN LET i == LeastOf(StartsOf10(s)) IN Clamp(FloatOf(s, i, NumEnd(s, i)))
        ELSE IF StartsLabel(s, S_score) # {}
        THEN LET d == LabelNum(s, LeastOf(StartsLabel(s, S_score)), S_score)
             IN  Clamp(FloatOf(s, d, NumEnd(s, d)))
        ELSE IF StartsLabel(s, S_ocena) # {}
        THEN LET d == LabelNum(s, LeastOf(StartsLabel(s, S_ocena)), S_ocena)
             IN  Clamp(FloatOf(s, d, NumEnd(s, d)))
        ELSE IF AnchoredOf10(s)
        THEN Clamp(FloatOf(s, 1, NumEnd(s, 1)))
        ELSE DEFAULT_SCORE

(***************************************************************************)
(* AgentEngine._check_brand_compliance                                     *)
(***************************************************************************)

NEG_1 == <<"n", "i", "e", " ", "j", "e", "s", "t", " ", "z", "g", "o", "d", "n">>

NEG_2 == <<"n", "a", "r", "u", "s", "z", "a">>

NEG_3 == <<"p", "r", "o", "b", "l", "e", "m">>

NEG_4 == <<"z", "a", "k", "a", "z", "a", "n", "e", " ", "s", "l-stroke", "o", "w">>

NEG_5 == <<"n", "i", "e", "z", "g", "o", "d", "n">>

POS_1 == <<"z", "g", "o", "d", "n">>

POS_2 == <<"o", "k">>

POS_3 == <<"z", "a", "t", "w", "i", "e", "r", "d", "z">>

POS_4 == <<"b", "r", "a", "k", " ", "p", "r", "o", "b", "l", "e", "m">>

POS_5 == <<"s", "p", "e", "l-stroke", "n", "i", "a">>

negative_markers == {NEG_1, NEG_2, NEG_3, NEG_4, NEG_5}

positive_markers == {POS_1, POS_2, POS_3, POS_4, POS_5}

S_found == <<"Z", "n", "a", "l", "e", "z", "i", "o", "n", "o", " ", "z", "a", "k", "a", "z", "a", "n", "e", " ", "s", "l-stroke", "o", "w", "a", ":", " ">>

S_sep == <<",", " ">>

S_brand_issues == <<"B", "R", "A", "N", "D", " ", "I", "S", "S", "U", "E", "S", ":", " ">>

\* [word for word in forbidden if word.lower() in content_lower]
RECURSIVE FoundForbidden(_, _)
FoundForbidden(content, forbidden) ==
    IF Len(forbidden) = 0 THEN <<>>
    ELSE (IF Contains(Lower(forbidden[1]), Lower(content))
          THEN <<forbidden[1]>> ELSE <<>>)
         \o FoundForbidden(content, Tail(forbidden))

\* mutant of CheckBrandCompliance: the guardian's approval is trusted before
\* the forbidden-term scan
CheckBrandCompliance_markersFirst(content, critique_result, forbidden) ==
    LET lower_result == Lower(critique_result)
        has_negative == \E m \in negative_markers : Contains(m, lower_result)
        has_positive == \E m \in positive_markers : Contains(m, lower_result)
        found_forbidden == FoundForbidden(content, forbidden)
    IN  IF has_positive
        THEN [approved |-> TRUE, issues |-> <<>>]
        ELSE IF Len(found_forbidden) > 0
        THEN [approved |-> FALSE, issues |-> S_found \o Join(S_sep, found_forbidden)]
        ELSE IF has_negative
        THEN [approved |-> FALSE, issues |-> critique_result]
        ELSE [approved |-> TRUE, issues |-> <<>>]

CheckBrandCompliance(content, critique_result, forbidden) ==
    LET lower_result == Lower(critique_result)
        has_negative == \E m \in negative_markers : Contains(m, lower_result)
        has_positive == \E m \in positive_markers : Contains(m, lower_result)
        found_forbidden == FoundForbidden(content, forbidden)
    IN  IF Len(found_forbidden) > 0
        THEN [approved |-> FALSE, issues |-> S_found \o Join(S_sep, found_forbidden)]
        ELSE IF has_negative /\ ~has_positive
        THEN [approved |-> FALSE, issues |-> critique_result]
        ELSE [approved |-> TRUE, issues |-> <<>>]

(***************************************************************************)
(* Texts the collaborators can produce                                     *)
(***************************************************************************)

W_dynamiczny == <<"d", "y", "n", "a", "m", "i", "c", "z", "n", "y">>

W_Witajcie == <<"W", "i", "t", "a", "j", "c", "i", "e">>

T_strategy == <<"K", "a", "t", ":", " ", "R", "O", "I">>

T_clean == <<"N", "o", "w", "y", " ", "p", "o", "s", "t">>

T_shout == <<"D", "Y", "N", "A", "M", "I", "C", "Z", "N", "Y", " ", "p", "o", "s", "t">>

T_hello == <<"W", "i", "t", "a", "j", "c", "i", "e", "!">>

T_better == <<"L", "e", "p", "s", "z", "y", " ", "p", "o", "s", "t">>

G_ok == <<"O", "K">>

G_violates == <<"N", "a", "r", "u", "s", "z", "a", " ", "t", "o", "n">>

G_mixed == <<"N", "i", "e", "z", "g", "o", "d", "n", "e">>

K_8of10 == <<"8", "/", "1", "0">>

K_7of10 == <<"D", "a", "j", "e", " ", "7", "/", "1", "0">>

K_ocena6 == <<"O", "c", "e", "n", "a", ":", " ", "6">>

K_none == <<"S", "l", "a", "b", "e">>

K_15of10 == <<"1", "5", "/", "1", "0">>

E_no_models == <<"N", "o", " ", "a", "v", "a", "i", "l", "a", "b", "l", "e", " ", "m", "o", "d", "e", "l", "s">>

E_strategist_failed == <<"S", "t", "r", "a", "t", "e", "g", "i", "s", "t", " ", "f", "a", "i", "l", "e", "d">>

E_copywriter_failed == <<"C", "o", "p", "y", "w", "r", "i", "t", "e", "r", " ", "f", "a", "i", "l", "e", "d">>

X_nonetype_len == <<"o", "b", "j", "e", "c", "t", " ", "o", "f", " ", "t", "y", "p", "e", " ", "'", "N", "o", "n", "e", "T", "y", "p", "e", "'", " ", "h", "a", "s", " ", "n", "o", " ", "l", "e", "n", "(", ")">>

X_read_only == <<"R", "e", "a", "d", "-", "o", "n", "l", "y", " ", "f", "i", "l", "e", " ", "s", "y", "s", "t", "e", "m">>

X_no_space == <<"N", "o", " ", "s", "p", "a", "c", "e", " ", "l", "e", "f", "t", " ", "o", "n", " ", "d", "e", "v", "i", "c", "e">>

(***************************************************************************)
(* State                                                                   *)
(***************************************************************************)

VARIABLES
    dna,              \* BrandMemory.dna (the fields the pipeline reads)
    feedback_data,    \* FeedbackManager.feedback_data
    history,          \* PostsHistory.history
    history_file,     \* the posts_history.json document
    added,            \* add_post calls made so far (the clock of created_at)
    last_id,          \* the id the latest completed add_post returned (0: none yet)
    prev_max,         \* the greatest id add_post had returned before that
    save_failures,    \* _save calls that raised so far
    pc,               \* position of run_pipeline
    topic, platform, skip_brand_check,
    state,            \* PipelineState
    current_content, iteration, critique, issues,
    logs,             \* List[AgentLog] of the run
    calls,            \* the _call_agent invocations of the run, in order
    result,           \* the AgentResult returned
    history0, file0,  \* the history store as run_pipeline found it
    bc,               \* one evaluation of _check_brand_compliance
    providers,        \* ModelRouter.providers: name -> ProviderState
    now,              \* time.time(), in milliseconds
    call_history,     \* ModelRouter.call_history
    rc,               \* the locals of ModelRouter.call and what it returned
    attempted,        \* the requests the call in progress has made, in order
    router_calls,     \* ModelRouter.call invocations so far
    issued,           \* per provider, the requests issued since it was created or reset
    learning,         \* the latest get_learning_context call and its result
    fb_clock,         \* datetime.now() of the feedback store, in add_* calls
    recorded,         \* the entries of all add_positive / add_negative calls
    bm,               \* a BrandMemory built on a brand_dna.json document
    hw                \* two PostsHistory instances on one posts_history.json

memVars == <<dna, feedback_data, history, history_file, added, last_id, prev_max,
             save_failures>>

runVars == <<pc, topic, platform, skip_brand_check, state, current_content, iteration,
             critique, issues, logs, calls, result, history0, file0>>

routerVars == <<providers, now, call_history, rc, attempted, router_calls, issued>>

storeVars == <<learning, fb_clock, recorded, bm, hw>>

vars == <<memVars, runVars, bc, routerVars, storeVars>>

(***************************************************************************)
(* memory_system.py                                                        *)
(***************************************************************************)

\* BrandMemory.get_prompt_context raises TypeError when a list-valued field
\* that it joins holds null
PromptContextRaises(d) == ~d.personality_traits_is_list

\* FeedbackManager.get_learning_context raises KeyError when the loaded
\* document lacks one of the lists it reads
LearningContextRaises(fd) ==
    ~({"positive", "negative", "adjustments"} \subseteq DOMAIN fd)

DefaultFeedback ==
    [positive |-> <<>>, negative |-> <<>>, adjustments |-> <<>>,
     stats |-> [total_positive |-> 0, total_negative |-> 0, total_adjustments |-> 0]]

\* a feedback.json that parses but is not the expected document
ForeignFeedback == [stats |-> [total_positive |-> 0]]

HISTORY_LIMIT == 200

\* mutant of LastN: xs[:n], the oldest kept
LastN_head(xs, n) == SubSeq(xs, 1, IF Len(xs) <= n THEN Len(xs) ELSE n)

\* xs[-n:]
LastN(xs, n) ==
    IF Len(xs) <= n THEN xs ELSE SubSeq(xs, Len(xs) - n + 1, Len(xs))

\* the entry add_post builds
PostEntry(h, content, plat, top, agent_logs, score, stamp) ==
    [id |-> Len(h) + 1, content |-> content, platform |-> plat, topic |-> top,
     agent_logs |-> agent_logs, score |-> score, created_at |-> stamp]

\* self.history.append(entry); self.history = self.history[-200:]
AppendTrimmed(h, entry) == LastN(Append(h, entry), HISTORY_LIMIT)

\* the document _save leaves behind: written in full, or, when the write
\* raises, untouched (open failed) or cut short (the write failed)
FileWritten(h) == [valid |-> TRUE, data |-> h]

FileCutShort == [valid |-> FALSE, data |-> <<>>]

\* PostsHistory._load
LoadHistory(file) == IF file.valid THEN file.data ELSE <<>>

SaveOutcomes == {"written", "open_failed", "write_failed"}

SaveError(outcome) == IF outcome = "open_failed" THEN X_read_only ELSE X_no_space

\* mutant of FileAfterSave: the write adds the new record to the document
FileAfterSave_appending(file, h, outcome) ==
    CASE outcome = "written" -> FileWritten(LoadHistory(file) \o <<h[Len(h)]>>)
      [] outcome = "open_failed" -> file
      [] outcome = "write_failed" -> FileCutShort

FileAfterSave(file, h, outcome) ==
    CASE outcome = "written" -> FileWritten(h)
      [] outcome = "open_failed" -> file
      [] outcome = "write_failed" -> FileCutShort

(***************************************************************************)
(* agent_engine.py: AgentEngine                                            *)
(***************************************************************************)

QUALITY_THRESHOLD == 7 * ScoreScale

MAX_ITERATIONS == 2

Roles == {"strategist", "copywriter", "critic", "editor", "brand_guardian"}

\* AGENTS[role]["name"]
AgentName(role) ==
    CASE role = "strategist" -> "Strategist"
      [] role = "copywriter" -> "Copywriter"
      [] role = "critic" -> "Critic"
      [] role = "editor" -> "Editor"
      [] role = "brand_guardian" -> "Brand Guardian"

\* AGENTS[role]["emoji"]
AgentEmoji(role) ==
    CASE role = "strategist" -> "target"
      [] role = "copywriter" -> "writing"
      [] role = "critic" -> "monocle"
      [] role = "editor" -> "tools"
      [] role = "brand_guardian" -> "shield"

\* AgentStep.__members__
AgentStepMembers ==
    {"STRATEGY", "COPYWRITING", "CRITIQUE", "EDITING", "BRAND_CHECK", "FINAL"}

\* agent_role.upper()
UpperRole(role) ==
    CASE role = "strategist" -> "STRATEGIST"
      [] role = "copywriter" -> "COPYWRITER"
      [] role = "critic" -> "CRITIC"
      [] role = "editor" -> "EDITOR"
      [] role = "brand_guardian" -> "BRAND_GUARDIAN"

\* AgentLog; message is the format string, text and num what it interpolates
Log(step, agent_name, emoji, message, text, num) ==
    [step |-> step, agent_name |-> agent_name, emoji |-> emoji,
     message |-> message, text |-> text, num |-> num]

\* log.message
MessageOf(log) == [message |-> log.message, text |-> log.text, num |-> log.num]

\* [log.message for log in logs]
Messages(ls) == [i \in 1..Len(ls) |-> MessageOf(ls[i])]

\* APIResponse as call_simple returns it; content_is_none: the provider
\* answered without text (message.content is None)
OkResp(c) ==
    [success |-> TRUE, content |-> c, content_is_none |-> FALSE, error |-> <<>>]

NoneResp ==
    [success |-> TRUE, content |-> <<>>, content_is_none |-> TRUE, error |-> <<>>]

FailResp(e) ==
    [success |-> FALSE, content |-> <<>>, content_is_none |-> FALSE, error |-> e]

Responses(role) ==
    CASE role = "strategist" ->
            {OkResp(T_strategy), OkResp(<<>>), FailResp(E_no_models), NoneResp}
      [] role = "copywriter" ->
            {OkResp(T_clean), OkResp(T_shout), FailResp(E_no_models), NoneResp}
      [] role = "critic" ->
            {OkResp(K_8of10), OkResp(K_7of10), OkResp(K_15of10), OkResp(K_ocena6),
             OkResp(K_none), FailResp(E_no_models), NoneResp}
      [] role = "editor" ->
            {OkResp(T_better), OkResp(T_hello), FailResp(E_no_models), NoneResp}
      [] role = "brand_guardian" ->
            {OkResp(G_ok), OkResp(G_violates), OkResp(G_mixed), FailResp(E_no_models),
             NoneResp}

\* _call_agent: what it returns (content, log) or that it raises; len() of a
\* None content raises TypeError while the success log is built
CallAgent(role, resp) ==
    IF resp.success
    THEN [raised |-> resp.content_is_none,
          exc |-> X_nonetype_len,
          content |-> resp.content,
          log |-> Log(IF UpperRole(role) \in AgentStepMembers
                      THEN UpperRole(role) ELSE "FINAL",
                      AgentName(role), AgentEmoji(role), "Zakonczono pomyslnie", <<>>, 0)]
    ELSE [raised |-> FALSE,
          exc |-> <<>>,
          content |-> <<>>,
          log |-> Log("FINAL", AgentName(role), "cross", "Blad: {error}", resp.error, 0)]

\* one entry of the invocation trace: the arguments _call_agent was given
\* (of the context, its learning_context) and the content it returned
Invocation(role, has_previous, previous_output, has_critique, crit, r, learning_context) ==
    [role |-> role, has_previous |-> has_previous, previous_output |-> previous_output,
     has_critique |-> has_critique, critique |-> crit,
     learning_context |-> learning_context,
     raised |-> r.raised, output |-> IF r.raised THEN <<>> ELSE r.content]

InitialState(t, p) ==
    [topic |-> t, platform |-> p, strategy |-> <<>>, draft |-> <<>>, critique |-> <<>>,
     critique_score |-> 0, edited_content |-> <<>>, brand_check_result |-> <<>>,
     brand_approved |-> FALSE, final_content |-> <<>>, iterations |-> 0]

AgentResult(success, content, plat, ls, st, error) ==
    [success |-> success, content |-> content, platform |-> plat, logs |-> ls,
     state |-> st, error |-> error]

NoResult == AgentResult(FALSE, <<>>, "", <<>>, InitialState("", ""), <<>>)

\* the log entry of the except clause of run_pipeline
CriticalLog(exc) == Log("FINAL", "Pipeline", "cross", "Blad krytyczny: {e}", exc, 0)

\* mutant of QualityReached: a score equal to the threshold does not pass
QualityReached_strict(score) == score > QUALITY_THRESHOLD

\* score >= QUALITY_THRESHOLD: the break of the critique loop
QualityReached(score) == score >= QUALITY_THRESHOLD

Topics == {"Code review"}

Platforms == {"LinkedIn", "Twitter"}

(***************************************************************************)
(* model_router.py                                                         *)
(***************************************************************************)

E_all_failed == <<"A", "l", "l", " ", "a", "t", "t", "e", "m", "p", "t", "s", " ", "f", "a", "i", "l", "e", "d", ".", " ", "L", "a", "s", "t", " ", "e", "r", "r", "o", "r", ":", " ">>

R_rate_limit == <<"R", "a", "t", "e", " ", "l", "i", "m", "i", "t", " ", "r", "e", "a", "c", "h", "e", "d">>

R_429 == <<"E", "r", "r", "o", "r", " ", "c", "o", "d", "e", ":", " ", "4", "2", "9">>

R_timeout == <<"C", "o", "n", "n", "e", "c", "t", "i", "o", "n", " ", "e", "r", "r", "o", "r">>

M_rate == <<"r", "a", "t", "e">>

M_limit == <<"l", "i", "m", "i", "t">>

M_429 == <<"4", "2", "9">>

T_reply == <<"t", "e", "s", "t">>

\* ProviderState()
NewProviderState ==
    [status |-> "available", last_error |-> <<>>, last_error_time |-> 0,
     requests_count |-> 0, cooldown_until |-> 0]

\* mutant of IsAvailable: a rate-limited provider counts as available
IsAvailable_ignoresCooldown(st, t) == st.status # "error"

\* BaseProvider.is_available: the value returned at time t
IsAvailable(st, t) ==
    IF st.status = "rate_limited" THEN t > st.cooldown_until
    ELSE st.status = "available"

\* mutant of AfterIsAvailable: recovery without a look at the clock
AfterIsAvailable_eager(st, t) ==
    IF st.status = "rate_limited" THEN [st EXCEPT !.status = "available"] ELSE st

\* BaseProvider.is_available: the state it leaves (the lazy recovery)
AfterIsAvailable(st, t) ==
    IF st.status = "rate_limited" /\ t > st.cooldown_until
    THEN [st EXCEPT !.status = "available"]
    ELSE st

\* BaseProvider.mark_error at time t
MarkError(st, error, cooldown_ms, t) ==
    [st EXCEPT !.status = "error", !.last_error = error, !.last_error_time = t,
               !.cooldown_until = t + cooldown_ms]

\* BaseProvider.mark_rate_limited at time t
MarkRateLimited(st, cooldown_ms, t) ==
    [st EXCEPT !.status = "rate_limited", !.cooldown_until = t + cooldown_ms]

RATE_LIMIT_COOLDOWN_S == 60

ERROR_COOLDOWN_S == 30

\* milliseconds, the unit of the model's clock
Seconds(n) == n * 1000

\* the test of the except clause: GroqProvider looks for "rate", "limit" and
\* "429", OpenAIProvider for "rate" and "limit"
LooksRateLimited(name, error) ==
    LET error_str == Lower(error)
    IN  \/ Contains(M_rate, error_str)
        \/ Contains(M_limit, error_str)
        \/ name = "groq" /\ Contains(M_429, error_str)

\* what the API behind a provider does with one request
ProviderOutcomes ==
    {[ok |-> TRUE, error |-> <<>>], [ok |-> FALSE, error |-> R_rate_limit],
     [ok |-> FALSE, error |-> R_429], [ok |-> FALSE, error |-> R_timeout]}

\* GroqProvider.call / OpenAIProvider.call: the provider state it leaves,
\* the request ending at time t
ProviderAfterCall(name, st, outcome, t) ==
    IF outcome.ok
    THEN [st EXCEPT !.requests_count = st.requests_count + 1]
    ELSE IF LooksRateLimited(name, outcome.error)
    THEN MarkRateLimited(st, Seconds(RATE_LIMIT_COOLDOWN_S), t)
    ELSE MarkError(st, outcome.error, Seconds(ERROR_COOLDOWN_S), t)

APIResponse(success, content, model_used, provider, error) ==
    [success |-> success, content |-> content, model_used |-> model_used,
     provider |-> provider, error |-> error]

\* GroqProvider.call / OpenAIProvider.call: the APIResponse it returns
ProviderResponse(name, model_id, outcome) ==
    IF outcome.ok
    THEN APIResponse(TRUE, T_reply, model_id, name, <<>>)
    ELSE APIResponse(FALSE, <<>>, "", name, outcome.error)

TaskTypes == {"strategy", "creative", "editing", "critique", "quick"}

ModelConfig(provider, model_id, task_types, priority) ==
    [provider |-> provider, model_id |-> model_id, task_types |-> task_types,
     priority |-> priority]

DEFAULT_MODELS ==
    << ModelConfig("groq", "llama-3.3-70b-versatile",
                   {"strategy", "creative", "critique"}, 1),
       ModelConfig("groq", "llama-3.1-8b-instant", {"editing", "quick"}, 1),
       ModelConfig("groq", "mixtral-8x7b-32768", {"strategy", "creative"}, 2),
       ModelConfig("openai", "gpt-4o-mini",
                   {"strategy", "creative", "critique", "editing"}, 10),
       ModelConfig("openai", "gpt-3.5-turbo", {"editing", "quick"}, 11) >>

\* f"{provider}:{model_id}"
ModelKey(m) == <<m.provider, m.model_id>>

\* mutant of SortedByPriority: the greatest priority number first
RECURSIVE SortedByPriority_descending(_)
SortedByPriority_descending(ms) ==
    IF Len(ms) <= 1 THEN ms
    ELSE LET rest == SortedByPriority_descending(Tail(ms))
             before == SelectSeq(rest, LAMBDA m : m.priority > ms[1].priority)
             after == SelectSeq(rest, LAMBDA m : m.priority <= ms[1].priority)
         IN  before \o <<ms[1]>> \o after

\* sorted(available, key=lambda m: m.priority): stable
RECURSIVE SortedByPriority(_)
SortedByPriority(ms) ==
    IF Len(ms) <= 1 THEN ms
    ELSE LET rest == SortedByPriority(Tail(ms))
             before == SelectSeq(rest, LAMBDA m : m.priority < ms[1].priority)
             after == SelectSeq(rest, LAMBDA m : m.priority >= ms[1].priority)
         IN  before \o <<ms[1]>> \o after

\* mutant of GetAvailableModels: a model whose provider is not configured
\* is not skipped
GetAvailableModels_unconfigured(provs, t, task_type, filtered) ==
    SortedByPriority(
        SelectSeq(DEFAULT_MODELS,
                  LAMBDA m : /\ (m.provider \in DOMAIN provs
                                   => IsAvailable(provs[m.provider], t))
                             /\ (filtered => task_type \in m.task_types)))

\* get_available_models(task_type); filtered = FALSE is the call without a
\* task type
GetAvailableModels(provs, t, task_type, filtered) ==
    SortedByPriority(
        SelectSeq(DEFAULT_MODELS,
                  LAMBDA m : /\ m.provider \in DOMAIN provs
                             /\ IsAvailable(provs[m.provider], t)
                             /\ (filtered => task_type \in m.task_types)))

\* the provider states once get_available_models has asked each configured
\* provider is_available()
Checked(provs, t) == [p \in DOMAIN provs |-> AfterIsAvailable(provs[p], t)]

\* select_model: the available models it picks the first of
SelectFrom(provs, t, task_type) ==
    LET available == GetAvailableModels(provs, t, task_type, TRUE)
    IN  IF available # <<>> THEN available
        ELSE GetAvailableModels(provs, t, task_type, FALSE)

MAX_RETRIES == 3

SLEEP_MS == 500

\* no call made yet
IdleCall ==
    [pc |-> "idle", task_type |-> "creative", attempts |-> 0, last_error |-> <<>>,
     tried_models |-> {}, response |-> APIResponse(FALSE, <<>>, "", "", <<>>),
     history_len0 |-> 0, available0 |-> {}]

\* a router of a process that has both API keys, before its first call
IdleRouter ==
    /\ providers = [p \in {"groq", "openai"} |-> NewProviderState]
    /\ now = 0
    /\ call_history = <<>>
    /\ rc = IdleCall
    /\ attempted = <<>>
    /\ router_calls = 0
    /\ issued = [p \in {"groq", "openai"} |-> 0]

(***************************************************************************)
(* memory_system.py: FeedbackManager                                       *)
(***************************************************************************)

H_positive ==
    <<"=", "=", "=", " ", "P", "R", "Z", "Y", "K", "L-stroke", "A", "D", "Y", " ", "D",
      "O", "B", "R", "E", "G", "O", " ", "S", "T", "Y", "L", "U", " ", "=", "=", "=">>

H_negative ==
    <<"\n", "=", "=", "=", " ", "C", "Z", "E", "G", "O", " ", "U", "N", "I", "K", "A",
      "C-acute", " ", "=", "=", "=">>

H_adjustments ==
    <<"\n", "=", "=", "=", " ", "P", "R", "E", "F", "E", "R", "E", "N", "C", "J", "E",
      " ", "U", "Z-dot", "Y", "T", "K", "O", "W", "N", "I", "K", "A", " ", "=", "=",
      "=">>

S_good == <<"check-mark", " ">>

S_bad == <<"ballot-x", " ">>

S_reason_open == <<" ", "(", "P", "o", "w", "o", "d", ":", " ">>

S_reason_close == <<")">>

S_prefers == <<"-", " ", "P", "r", "e", "f", "e", "r", "u", "j", "e", ":", " ">>

S_newline == <<"\n">>

S_ellipsis == <<".", ".", ".">>

A_shorter == <<"s", "h", "o", "r", "t", "e", "r">>

A_less_emoji == <<"l", "e", "s", "s", "_", "e", "m", "o", "j", "i">>

T_too_long == <<"Z", "a", " ", "d", "l", "u", "g", "i">>

FEEDBACK_LIMIT == 50

PREVIEW_LIMIT == 200

RECENT_EXAMPLES == 3

RECENT_ADJUSTMENTS == 10

\* content[:200] + "..." if len(content) > 200 else content
ContentPreview(content) ==
    IF Len(content) > PREVIEW_LIMIT
    THEN SubSeq(content, 1, PREVIEW_LIMIT) \o S_ellipsis
    ELSE content

\* the entry of add_positive
PositiveEntry(content, plat, stamp) ==
    [content_preview |-> ContentPreview(content), platform |-> plat, timestamp |-> stamp,
     metadata |-> <<>>]

\* the entry of add_negative; reason <<>> is None
NegativeEntry(content, plat, reason, stamp) ==
    [content_preview |-> ContentPreview(content), platform |-> plat, reason |-> reason,
     timestamp |-> stamp]

\* the entry of add_adjustment
AdjustmentEntry(adjustment_type, stamp) == [type |-> adjustment_type, timestamp |-> stamp]

\* mutant of AfterAddPositive: the list is not trimmed
AfterAddPositive_untrimmed(fd, entry) ==
    [fd EXCEPT !.positive = Append(fd.positive, entry),
               !.stats.total_positive = @ + 1]

\* add_positive: feedback_data after the append and the trim
AfterAddPositive(fd, entry) ==
    [fd EXCEPT !.positive = LastN(Append(fd.positive, entry), FEEDBACK_LIMIT),
               !.stats.total_positive = @ + 1]

\* add_negative
AfterAddNegative(fd, entry) ==
    [fd EXCEPT !.negative = LastN(Append(fd.negative, entry), FEEDBACK_LIMIT),
               !.stats.total_negative = @ + 1]

\* add_adjustment
AfterAddAdjustment(fd, entry) ==
    [fd EXCEPT !.adjustments = Append(fd.adjustments, entry),
               !.stats.total_adjustments = @ + 1]

\* [p for p in entries if p["platform"] == platform], for a platform given
OfPlatform(entries, plat) ==
    IF plat = "" THEN entries ELSE SelectSeq(entries, LAMBDA e : e.platform = plat)

\* the lines of the positive section
PositiveLines(positive) ==
    IF positive = <<>> THEN <<>>
    ELSE <<H_positive>> \o
         [i \in 1..Len(LastN(positive, RECENT_EXAMPLES)) |->
             S_good \o LastN(positive, RECENT_EXAMPLES)[i].content_preview]

\* the lines of the negative section
NegativeLines(negative) ==
    IF negative = <<>> THEN <<>>
    ELSE <<H_negative>> \o
         [i \in 1..Len(LastN(negative, RECENT_EXAMPLES)) |->
             LET n == LastN(negative, RECENT_EXAMPLES)[i]
             IN  S_bad \o n.content_preview \o
                 (IF n.reason # <<>> THEN S_reason_open \o n.reason \o S_reason_close
                  ELSE <<>>)]

\* the keys of recent_adj, in the order of their first occurrence
RECURSIVE FirstOccurrences(_)
FirstOccurrences(adjs) ==
    IF adjs = <<>> THEN <<>>
    ELSE LET before == FirstOccurrences(SubSeq(adjs, 1, Len(adjs) - 1))
             t == adjs[Len(adjs)].type
         IN  IF \E i \in 1..Len(before) : before[i] = t THEN before
             ELSE Append(before, t)

\* recent_adj[adj_type]
CountOf(adjs, t) == Cardinality({i \in 1..Len(adjs) : adjs[i].type = t})

\* the lines of the adjustment section
AdjustmentLines(adjustments) ==
    IF adjustments = <<>> THEN <<>>
    ELSE LET recent == LastN(adjustments, RECENT_ADJUSTMENTS)
             repeated == SelectSeq(FirstOccurrences(recent),
                                   LAMBDA t : CountOf(recent, t) >= 2)
         IN  <<H_adjustments>> \o
             [i \in 1..Len(repeated) |-> S_prefers \o repeated[i]]

\* context_parts of get_learning_context(platform); platform "" is None
ContextParts(fd, plat) ==
    PositiveLines(OfPlatform(fd.positive, plat))
       \o NegativeLines(OfPlatform(fd.negative, plat))
       \o AdjustmentLines(fd.adjustments)

\* get_learning_context(platform)
GetLearningContext(fd, plat) ==
    IF ContextParts(fd, plat) = <<>> THEN <<>>
    ELSE Join(S_newline, ContextParts(fd, plat))

\* no get_learning_context call made on the store as it is
NoLearning == [done |-> FALSE, platform |-> "", text |-> <<>>, parts |-> <<>>]

(***************************************************************************)
(* memory_system.py: BrandMemory                                           *)
(***************************************************************************)

W_innowacyjny == <<"i", "n", "n", "o", "w", "a", "c", "y", "j", "n", "y">>

W_game_changer == <<"g", "a", "m", "e", "-", "c", "h", "a", "n", "g", "e", "r">>

W_witajcie == <<"w", "i", "t", "a", "j", "c", "i", "e">>

W_w_dzisiejszym == <<"w", " ", "d", "z", "i", "s", "i", "e", "j", "s", "z", "y", "m", " ", "s-acute", "w", "i", "e", "c", "i", "e">>

W_synergiczny == <<"s", "y", "n", "e", "r", "g", "i", "c", "z", "n", "y">>

\* BrandMemory.DEFAULT_DNA; the texts that are only stored are strings, None
\* is "None"
DEFAULT_DNA ==
    [brand_name |-> "Moja Marka",
     tagline |-> "",
     tone_of_voice |-> "Ekspercki, ale przystepny",
     formality_level |-> "medium",
     personality_traits |-> <<"profesjonalny", "pomocny", "konkretny">>,
     forbidden_words |-> <<W_innowacyjny, W_dynamiczny, W_game_changer, W_witajcie,
                           W_w_dzisiejszym, W_synergiczny>>,
     preferred_phrases |-> <<>>,
     emoji_policy |-> "minimal",
     max_emojis_per_post |-> 3,
     hashtag_policy |-> "minimal",
     max_hashtags |-> 3,
     target_audience |-> "Profesjonalisci IT, deweloperzy, tech leads",
     audience_pain_points |-> <<>>,
     audience_goals |-> <<>>,
     preferred_length |-> [LinkedIn |-> "medium", Twitter |-> "short",
                           Facebook |-> "medium"],
     created_at |-> "None",
     updated_at |-> "None"]

\* {**self.DEFAULT_DNA, **saved_dna}
Merged(defaults, saved_dna) ==
    [k \in DOMAIN defaults \cup DOMAIN saved_dna |->
        IF k \in DOMAIN saved_dna THEN saved_dna[k] ELSE defaults[k]]

\* brand_dna.json: absent, not JSON, or a JSON object
NoFile == [exists |-> FALSE, valid |-> FALSE, data |-> <<>>]

BrokenFile == [exists |-> TRUE, valid |-> FALSE, data |-> <<>>]

FileOf(d) == [exists |-> TRUE, valid |-> TRUE, data |-> d]

\* d with d[key] = value, key in d or not
Assigned(d, key, value) ==
    [k \in DOMAIN d \cup {key} |-> IF k = key THEN value ELSE d[k]]

\* _save(dna): the dna it stamps and writes
Stamped(d, stamp) == Assigned(d, "updated_at", stamp)

\* the class attribute DEFAULT_DNA as it stands in the process: its list of
\* forbidden words is one object, which the instances that took it from the
\* defaults share and change in place
ClassDefaults(class_forbidden) == [DEFAULT_DNA EXCEPT !.forbidden_words = class_forbidden]

\* _create_default at time stamp: self.DEFAULT_DNA.copy(), stamped and saved
CreatedDefault(defaults, stamp) == Stamped(Assigned(defaults, "created_at", stamp), stamp)

\* _load at time stamp: the dna it returns
Loaded(defaults, file, stamp) ==
    IF file.exists /\ file.valid THEN Merged(defaults, file.data)
    ELSE CreatedDefault(defaults, stamp)

\* _load at time stamp: the file it leaves
FileAfterLoad(defaults, file, stamp) ==
    IF file.exists /\ file.valid THEN file ELSE FileOf(CreatedDefault(defaults, stamp))

\* the dna _load returns holds the list object of the class attribute: the
\* copy is shallow and the merge takes the values of the defaults as they are
TakesClassList(file) ==
    ~(file.exists /\ file.valid) \/ "forbidden_words" \notin DOMAIN file.data

\* word.strip() for the blanks of the model's words
RECURSIVE Strip(_)
Strip(word) ==
    IF word = <<>> THEN word
    ELSE IF Head(word) = " " THEN Strip(Tail(word))
    ELSE IF word[Len(word)] = " " THEN Strip(SubSeq(word, 1, Len(word) - 1))
    ELSE word

\* word in self.dna["forbidden_words"]
InList(word, words) == \E i \in 1..Len(words) : words[i] = word

\* list.remove(word): the first occurrence goes
RECURSIVE Removed(_, _)
Removed(words, word) ==
    IF words = <<>> THEN words
    ELSE IF Head(words) = word THEN Tail(words)
    ELSE <<Head(words)>> \o Removed(Tail(words), word)

\* no BrandMemory constructed yet on the document
Unbuilt(file) ==
    [pc |-> "unbuilt", file |-> file, file0 |-> file, dna |-> <<>>, clock |-> 1,
     calls |-> 0, key |-> "", returned |-> FALSE,
     class_forbidden |-> DEFAULT_DNA.forbidden_words, shares_class_list |-> FALSE,
     from_defaults |-> FALSE]

\* the engine's PostsHistory on the document, which the UI shares until it
\* builds its own (ui_gen counts the instances the UI has built)
OneWriter(h) ==
    [file |-> FileWritten(h), mem |-> [engine |-> h, ui |-> h], ui_gen |-> 0,
     clock |-> 0, calls |-> 0, last_written |-> "none", persisted |-> {}]

\* the feedback store and the brand store of the specifications that do not
\* use them
IdleStores ==
    /\ learning = NoLearning
    /\ fb_clock = 0
    /\ recorded = [positive |-> <<>>, negative |-> <<>>]
    /\ bm = Unbuilt(NoFile)
    /\ hw = OneWriter(<<>>)

(***************************************************************************)
(* AgentEngine.run_pipeline, one action per agent invocation               *)
(***************************************************************************)

\* s[:n]
Prefix(s, n) == SubSeq(s, 1, Min(Len(s), n))

\* the except clause: log the failure and return a failed AgentResult
Caught(ls, exc) ==
    /\ logs' = Append(ls, CriticalLog(exc))
    /\ result' = AgentResult(FALSE, <<>>, platform, logs', state', exc)
    /\ pc' = "returned"

\* mutant of StageFailed: returns before the stage's outcome log is appended
StageFailed_beforeLog(ls, error) ==
    /\ logs' = SubSeq(ls, 1, Len(ls) - 1)
    /\ result' = AgentResult(FALSE, <<>>, platform, logs', state', error)
    /\ pc' = "returned"

\* an early "return AgentResult(success=False, ...)" of a failed stage
StageFailed(ls, error) ==
    /\ logs' = ls
    /\ result' = AgentResult(FALSE, <<>>, platform, logs', state', error)
    /\ pc' = "returned"

\* mutant of AfterIteration: the loop bound off by one
AfterIteration_offByOne(i) ==
    IF i + 1 <= MAX_ITERATIONS THEN "critic" ELSE "brand_guardian"

\* where the critique loop goes once the pass with index i has ended
AfterIteration(i) == IF i + 1 < MAX_ITERATIONS THEN "critic" ELSE "brand_guardian"

\* mutant of Edited: the editor's result replaces the content even when empty
Edited_always(current, edited) == edited

\* "if edited: current_content = edited": the content after an editor call
Edited(current, edited) == IF edited # <<>> THEN edited ELSE current

\* mutant of AfterBrandCheck: a failed brand check is not followed by a
\* corrective edit
AfterBrandCheck_noCorrection(approved) == "final"

\* "if state.brand_approved: ... else: ...": where the run goes after the
\* brand check
AfterBrandCheck(approved) == IF approved THEN "final" ELSE "brand_editor"

\* learning_context = self.feedback_manager.get_learning_context(platform.value)
LearningOf(fd, plat) == GetLearningContext(fd, plat)

\* the state set up and the two memory reads made before the try block
RunPipeline(t, p, skip) ==
    /\ pc = "idle"
    /\ topic' = t
    /\ platform' = p
    /\ skip_brand_check' = skip
    /\ state' = InitialState(t, p)
    /\ logs' = <<>>
    /\ calls' = <<>>
    /\ history0' = history
    /\ file0' = history_file
    /\ pc' = IF PromptContextRaises(dna) \/ LearningContextRaises(feedback_data)
             THEN "raised" ELSE "strategist"
    /\ UNCHANGED <<current_content, iteration, critique, issues, result, memVars, bc, routerVars, storeVars>>

Strategist ==
    /\ pc = "strategist"
    /\ \E resp \in Responses("strategist") :
          LET r == CallAgent("strategist", resp)
              announced == Append(logs, Log("STRATEGY", "Strategist", "target",
                                            "Analizuje cel i grupe docelowa...", <<>>, 0))
          IN  /\ calls' = Append(calls, Invocation("strategist", FALSE, <<>>, FALSE, <<>>, r,
                                                   LearningOf(feedback_data, platform)))
              /\ IF r.raised
                 THEN state' = state /\ Caught(announced, r.exc)
                 ELSE IF r.content = <<>>
                 THEN state' = state
                      /\ StageFailed(Append(announced, r.log), E_strategist_failed)
                 ELSE /\ state' = [state EXCEPT !.strategy = r.content]
                      /\ logs' = Append(announced, r.log)
                      /\ pc' = "copywriter"
                      /\ result' = result
    /\ UNCHANGED <<topic, platform, skip_brand_check, current_content, iteration, critique,
                   issues, history0, file0, memVars, bc, routerVars, storeVars>>

Copywriter ==
    /\ pc = "copywriter"
    /\ \E resp \in Responses("copywriter") :
          LET r == CallAgent("copywriter", resp)
              announced == Append(logs, Log("COPYWRITING", "Copywriter", "writing",
                                            "Pisze pierwsza wersje...", <<>>, 0))
          IN  /\ calls' = Append(calls, Invocation("copywriter", TRUE, state.strategy,
                                                   FALSE, <<>>, r,
                                                   LearningOf(feedback_data, platform)))
              /\ IF r.raised
                 THEN state' = state /\ Caught(announced, r.exc)
                      /\ current_content' = current_content
                 ELSE IF r.content = <<>>
                 THEN state' = state
                      /\ StageFailed(Append(announced, r.log), E_copywriter_failed)
                      /\ current_content' = current_content
                 ELSE /\ state' = [state EXCEPT !.draft = r.content]
                      /\ current_content' = r.content
                      /\ logs' = Append(announced, r.log)
                      /\ pc' = AfterIteration(-1)
                      /\ result' = result
    /\ UNCHANGED <<topic, platform, skip_brand_check, iteration, critique, issues,
                   history0, file0, memVars, bc, routerVars, storeVars>>

Critic ==
    /\ pc = "critic"
    /\ \E resp \in Responses("critic") :
          LET r == CallAgent("critic", resp)
              counted == [state EXCEPT !.iterations = iteration + 1]
              announced == Append(logs, Log("CRITIQUE", "Critic", "monocle",
                                            "Oceniam jakosc (iteracja {n})...", <<>>,
                                            iteration + 1))
              score == ExtractScore(r.content)
              scored == announced \o
                        <<r.log, Log("CRITIQUE", "Critic", "chart", "Ocena: {score}/10",
                                     <<>>, score)>>
          IN  /\ calls' = Append(calls, Invocation("critic", TRUE, current_content,
                                                   FALSE, <<>>, r,
                                                   LearningOf(feedback_data, platform)))
              /\ IF r.raised
                 THEN state' = counted /\ Caught(announced, r.exc)
                      /\ critique' = critique
                 ELSE /\ critique' = r.content
                      /\ state' = [counted EXCEPT !.critique = r.content,
                                                  !.critique_score = score]
                      /\ result' = result
                      /\ IF QualityReached(score)
                         THEN /\ logs' = Append(scored,
                                     Log("CRITIQUE", "Critic", "check",
                                         "Jakosc wystarczajaca, pomijam dalsze poprawki",
                                         <<>>, 0))
                              /\ pc' = "brand_guardian"
                         ELSE /\ logs' = scored
                              /\ pc' = "editor"
    /\ UNCHANGED <<topic, platform, skip_brand_check, current_content, iteration, issues,
                   history0, file0, memVars, bc, routerVars, storeVars>>

Editor ==
    /\ pc = "editor"
    /\ \E resp \in Responses("editor") :
          LET r == CallAgent("editor", resp)
              announced == Append(logs, Log("EDITING", "Editor", "tools",
                                            "Wprowadzam poprawki na bazie krytyki...",
                                            <<>>, 0))
          IN  /\ calls' = Append(calls, Invocation("editor", TRUE, current_content,
                                                   TRUE, critique, r,
                                                   LearningOf(feedback_data, platform)))
              /\ IF r.raised
                 THEN /\ state' = state /\ Caught(announced, r.exc)
                      /\ UNCHANGED <<current_content, iteration>>
                 ELSE /\ logs' = Append(announced, r.log)
                      /\ current_content' = Edited(current_content, r.content)
                      /\ state' = IF r.content # <<>>
                                  THEN [state EXCEPT !.edited_content = r.content]
                                  ELSE state
                      /\ iteration' = iteration + 1
                      /\ pc' = AfterIteration(iteration)
                      /\ result' = result
    /\ UNCHANGED <<topic, platform, skip_brand_check, critique, issues,
                   history0, file0, memVars, bc, routerVars, storeVars>>

\* skip_brand_check: the else branch of step 5
SkipBrandCheck ==
    /\ pc = "brand_guardian"
    /\ skip_brand_check
    /\ state' = [state EXCEPT !.brand_approved = TRUE]
    /\ pc' = "final"
    /\ UNCHANGED <<topic, platform, skip_brand_check, current_content, iteration, critique,
                   issues, logs, calls, result, history0, file0, memVars, bc, routerVars, storeVars>>

BrandGuardian ==
    /\ pc = "brand_guardian"
    /\ ~skip_brand_check
    /\ \E resp \in Responses("brand_guardian") :
          LET r == CallAgent("brand_guardian", resp)
              announced == Append(logs, Log("BRAND_CHECK", "Brand Guardian", "shield",
                                            "Sprawdzam zgodnosc z Brand DNA...", <<>>, 0))
              verdict == CheckBrandCompliance(current_content, r.content,
                                              dna.forbidden_words)
          IN  /\ calls' = Append(calls, Invocation("brand_guardian", TRUE, current_content,
                                                   FALSE, <<>>, r,
                                                   LearningOf(feedback_data, platform)))
              /\ IF r.raised
                 THEN state' = state /\ Caught(announced, r.exc) /\ issues' = issues
                 ELSE /\ state' = [state EXCEPT !.brand_check_result = r.content,
                                                !.brand_approved = verdict.approved]
                      /\ issues' = verdict.issues
                      /\ result' = result
                      /\ pc' = AfterBrandCheck(verdict.approved)
                      /\ IF verdict.approved
                         THEN logs' = announced \o
                                    <<r.log, Log("BRAND_CHECK", "Brand Guardian", "check",
                                                 "Tresc zgodna z Brand DNA", <<>>, 0)>>
                         ELSE logs' = announced \o
                                    <<r.log, Log("BRAND_CHECK", "Brand Guardian", "warning",
                                                 "Wykryto problemy: {issues}...",
                                                 Prefix(verdict.issues, 100), 0)>>
    /\ UNCHANGED <<topic, platform, skip_brand_check, current_content, iteration, critique,
                   history0, file0, memVars, bc, routerVars, storeVars>>

\* the extra editor pass after a failed brand check; its log is not appended
BrandEditor ==
    /\ pc = "brand_editor"
    /\ \E resp \in Responses("editor") :
          LET r == CallAgent("editor", resp)
          IN  /\ calls' = Append(calls, Invocation("editor", TRUE, current_content,
                                                   TRUE, S_brand_issues \o issues, r,
                                                   LearningOf(feedback_data, platform)))
              /\ state' = state
              /\ IF r.raised
                 THEN Caught(logs, r.exc) /\ current_content' = current_content
                 ELSE /\ current_content' = Edited(current_content, r.content)
                      /\ pc' = "final"
                      /\ UNCHANGED <<logs, result>>
    /\ UNCHANGED <<topic, platform, skip_brand_check, iteration, critique, issues,
                   history0, file0, memVars, bc, routerVars, storeVars>>

MaxSaveFailures == 1

\* PostsHistory.add_post on the store: the entry is appended and the list
\* trimmed before _save runs, so both happen whether or not _save raises
AddPost(content, plat, top, agent_logs, score, outcome) ==
    LET entry == PostEntry(history, content, plat, top, agent_logs, score, added + 1)
    IN  /\ outcome # "written" => save_failures < MaxSaveFailures
        /\ history' = AppendTrimmed(history, entry)
        /\ added' = added + 1
        /\ history_file' = FileAfterSave(history_file, history', outcome)
        /\ IF outcome = "written"
           THEN /\ last_id' = entry.id
                /\ prev_max' = Max(prev_max, last_id)
                /\ save_failures' = save_failures
           ELSE /\ UNCHANGED <<last_id, prev_max>>
                /\ save_failures' = save_failures + 1

\* the finalisation: final log entry, add_post, the successful return
Finalize ==
    /\ pc = "final"
    /\ \E outcome \in SaveOutcomes :
          LET finished == Append(logs, Log("FINAL", "Pipeline", "party",
                                           "Zakonczono w {ms}ms ({n} iteracji)", <<>>,
                                           state.iterations))
          IN  /\ state' = [state EXCEPT !.final_content = current_content]
              /\ AddPost(current_content, platform, topic, Messages(finished),
                         state.critique_score, outcome)
              /\ IF outcome = "written"
                 THEN /\ logs' = finished
                      /\ result' = AgentResult(TRUE, current_content, platform, logs', state',
                                               <<>>)
                      /\ pc' = "returned"
                 ELSE Caught(finished, SaveError(outcome))
    /\ UNCHANGED <<topic, platform, skip_brand_check, current_content, iteration, critique,
                   issues, calls, history0, file0, dna, feedback_data, bc, routerVars, storeVars>>

(***************************************************************************)
(* The pipeline specification: one run_pipeline call on an engine whose    *)
(* stores were loaded from disk                                            *)
(***************************************************************************)

ForbiddenLists == {<<>>, <<W_Witajcie, W_dynamiczny>>}

\* a record an earlier run left in the history store
EarlierPost ==
    [id |-> 1, content |-> T_clean, platform |-> "Facebook", topic |-> "AI w biznesie",
     agent_logs |-> <<>>, score |-> 5 * ScoreScale, created_at |-> 1]

IdleRun ==
    /\ pc = "idle"
    /\ topic = ""
    /\ platform = ""
    /\ skip_brand_check = FALSE
    /\ state = InitialState("", "")
    /\ current_content = <<>>
    /\ iteration = 0
    /\ critique = <<>>
    /\ issues = <<>>
    /\ logs = <<>>
    /\ calls = <<>>
    /\ result = NoResult
    /\ history0 = <<>>
    /\ file0 = FileWritten(<<>>)

NoBrandCheck ==
    bc = [content |-> <<>>, response |-> <<>>, forbidden |-> <<>>, done |-> FALSE,
          verdict |-> [approved |-> TRUE, issues |-> <<>>]]

Init ==
    /\ \E fw \in ForbiddenLists, traits_ok \in BOOLEAN :
          dna = [forbidden_words |-> fw, personality_traits_is_list |-> traits_ok]
    /\ feedback_data \in {DefaultFeedback, ForeignFeedback}
    /\ history \in {<<>>, <<EarlierPost>>}
    /\ history_file = FileWritten(history)
    /\ added = Len(history)
    /\ last_id = 0
    /\ prev_max = 0
    /\ save_failures = 0
    /\ IdleRun
    /\ NoBrandCheck
    /\ IdleRouter
    /\ IdleStores

Next ==
    \/ \E t \in Topics, p \in Platforms, skip \in BOOLEAN : RunPipeline(t, p, skip)
    \/ Strategist
    \/ Copywriter
    \/ Critic
    \/ Editor
    \/ SkipBrandCheck
    \/ BrandGuardian
    \/ BrandEditor
    \/ Finalize

Spec == Init /\ [][Next]_vars

(***************************************************************************)
(* The brand-check specification: _check_brand_compliance applied to a     *)
(* content, a guardian response and a forbidden-term list                  *)
(***************************************************************************)

BrandContents == {<<>>, T_clean, T_shout, T_hello, T_better}

\* empty, positive marker, negative marker, both, neither
GuardianTexts == {<<>>, G_ok, G_violates, G_mixed, T_clean}

BrandForbiddenLists ==
    {<<>>, <<W_dynamiczny>>, <<W_Witajcie, W_dynamiczny>>, <<W_dynamiczny, T_better>>}

BrandInit ==
    /\ bc \in [content : BrandContents, response : GuardianTexts,
               forbidden : BrandForbiddenLists, done : {FALSE},
               verdict : {[approved |-> TRUE, issues |-> <<>>]}]
    /\ dna = [forbidden_words |-> bc.forbidden, personality_traits_is_list |-> TRUE]
    /\ feedback_data = DefaultFeedback
    /\ history = <<>>
    /\ history_file = FileWritten(<<>>)
    /\ added = 0
    /\ last_id = 0
    /\ prev_max = 0
    /\ save_failures = 0
    /\ IdleRun
    /\ IdleRouter
    /\ IdleStores

CheckBrand ==
    /\ ~bc.done
    /\ bc' = [bc EXCEPT !.done = TRUE,
                        !.verdict = CheckBrandCompliance(bc.content, bc.response,
                                                         dna.forbidden_words)]
    /\ UNCHANGED <<memVars, runVars, routerVars, storeVars>>

BrandNext == CheckBrand

SpecBrand == BrandInit /\ [][BrandNext]_vars

(***************************************************************************)
(* The history specification: add_post calls on one PostsHistory store     *)
(***************************************************************************)

MaxAdds == 205

HistoryInit ==
    /\ dna = [forbidden_words |-> <<>>, personality_traits_is_list |-> TRUE]
    /\ feedback_data = DefaultFeedback
    /\ history \in {<<>>, <<EarlierPost>>}
    /\ history_file = FileWritten(history)
    /\ added = Len(history)
    /\ last_id = 0
    /\ prev_max = 0
    /\ save_failures = 0
    /\ IdleRun
    /\ NoBrandCheck
    /\ IdleRouter
    /\ IdleStores

\* a caller's add_post(content, platform, topic); agent_logs and score default
HistoryAdd ==
    /\ added < MaxAdds
    /\ \E outcome \in SaveOutcomes :
          AddPost(T_clean, "LinkedIn", "Code review", <<>>, 0, outcome)
    /\ UNCHANGED <<dna, feedback_data, runVars, bc, routerVars, storeVars>>

HistoryNext == HistoryAdd

SpecHistory == HistoryInit /\ [][HistoryNext]_vars

(***************************************************************************)
(* The router specification: ModelRouter.call, get_provider_status and     *)
(* reset_provider on one router, and time passing between the calls        *)
(***************************************************************************)

MaxRouterCalls == 2

MaxClockSeconds == 90

\* how long a request to a provider takes: as long as the pause between two
\* attempts, or as long as the cooldown of a rate-limited provider
Latencies == {SLEEP_MS, Seconds(RATE_LIMIT_COOLDOWN_S)}

\* _initialize_providers: a provider per API key found in the environment
KeySets == SUBSET {"groq", "openai"}

RouterInit ==
    /\ \E keys \in KeySets : providers = [p \in keys |-> NewProviderState]
    /\ now = 0
    /\ call_history = <<>>
    /\ rc = IdleCall
    /\ attempted = <<>>
    /\ router_calls = 0
    /\ issued = [p \in DOMAIN providers |-> 0]
    /\ dna = [forbidden_words |-> <<>>, personality_traits_is_list |-> TRUE]
    /\ feedback_data = DefaultFeedback
    /\ history = <<>>
    /\ history_file = FileWritten(<<>>)
    /\ added = 0
    /\ last_id = 0
    /\ prev_max = 0
    /\ save_failures = 0
    /\ IdleRun
    /\ NoBrandCheck
    /\ IdleStores

\* ModelRouter.call up to the loop
RouterCall(task_type) ==
    /\ rc.pc # "loop"
    /\ router_calls < MaxRouterCalls
    /\ router_calls' = router_calls + 1
    /\ rc' = [pc |-> "loop", task_type |-> task_type, attempts |-> 0, last_error |-> <<>>,
              tried_models |-> {}, response |-> IdleCall.response,
              history_len0 |-> Len(call_history),
              available0 |-> {p \in DOMAIN providers : IsAvailable(providers[p], now)}]
    /\ attempted' = <<>>
    /\ UNCHANGED <<providers, now, call_history, issued, memVars, runVars, bc, storeVars>>

\* the return after the loop
AllFailed(last_error) == APIResponse(FALSE, <<>>, "", "", E_all_failed \o last_error)

RouterReturn(response) == rc' = [rc EXCEPT !.pc = "returned", !.response = response]

\* mutant of Choice: the model select_model returns, tried or not
Choice_repeats(provs, t, task_type, tried_models) ==
    [found |-> TRUE, model |-> SelectFrom(provs, t, task_type)[1]]

\* the model one pass of the loop settles on; found is FALSE at the break
Choice(provs, t, task_type, tried_models) ==
    LET model_config == SelectFrom(provs, t, task_type)[1]
        alternatives == SelectSeq(GetAvailableModels(provs, t, task_type, TRUE),
                                  LAMBDA m : ModelKey(m) \notin tried_models)
    IN  IF ModelKey(model_config) \notin tried_models
        THEN [found |-> TRUE, model |-> model_config]
        ELSE IF alternatives # <<>>
        THEN [found |-> TRUE, model |-> alternatives[1]]
        ELSE [found |-> FALSE, model |-> model_config]

\* one pass of the loop of ModelRouter.call, with the exit it takes
RouterAttempt ==
    /\ rc.pc = "loop"
    /\ IF rc.attempts >= MAX_RETRIES
       THEN /\ RouterReturn(AllFailed(rc.last_error))
            /\ UNCHANGED <<providers, now, call_history, attempted, issued>>
       ELSE IF SelectFrom(providers, now, rc.task_type) = <<>>
       THEN /\ RouterReturn(APIResponse(FALSE, <<>>, "", "", E_no_models))
            /\ providers' = Checked(providers, now)
            /\ UNCHANGED <<now, call_history, attempted, issued>>
       ELSE LET choice == Choice(providers, now, rc.task_type, rc.tried_models)
                m == choice.model
            IN  IF ~choice.found
                THEN /\ RouterReturn(AllFailed(rc.last_error))
                     /\ providers' = Checked(providers, now)
                     /\ UNCHANGED <<now, call_history, attempted, issued>>
                ELSE IF m.provider \notin DOMAIN providers
                THEN /\ rc' = [rc EXCEPT !.tried_models = @ \cup {ModelKey(m)},
                                         !.attempts = @ + 1]
                     /\ UNCHANGED <<providers, now, call_history, attempted, issued>>
                ELSE \E outcome \in ProviderOutcomes, latency \in Latencies :
                        LET response == ProviderResponse(m.provider, m.model_id, outcome)
                        IN  /\ now + latency <= Seconds(MaxClockSeconds)
                            /\ providers' =
                                   [Checked(providers, now) EXCEPT ![m.provider] =
                                       ProviderAfterCall(m.provider, @, outcome,
                                                         now + latency)]
                            /\ call_history' =
                                   Append(call_history,
                                          [model |-> m.model_id, provider |-> m.provider,
                                           success |-> response.success])
                            /\ issued' = [issued EXCEPT ![m.provider] = @ + 1]
                            /\ attempted' =
                                   Append(attempted,
                                          [provider |-> m.provider, model |-> m.model_id,
                                           outcome |-> outcome, latency |-> latency])
                            /\ IF response.success
                               THEN /\ rc' = [rc EXCEPT
                                                !.pc = "returned",
                                                !.response = response,
                                                !.tried_models = @ \cup {ModelKey(m)}]
                                    /\ now' = now + latency
                               ELSE /\ rc' = [rc EXCEPT
                                                !.tried_models = @ \cup {ModelKey(m)},
                                                !.last_error = response.error,
                                                !.attempts = @ + 1]
                                    /\ now' = now + latency + SLEEP_MS
    /\ UNCHANGED <<router_calls, memVars, runVars, bc, storeVars>>

\* the caller has taken the response of the latest call
Consumed == [rc EXCEPT !.pc = "idle"]

\* get_provider_status(): asks every provider is_available()
GetProviderStatus ==
    /\ rc.pc # "loop"
    /\ providers' = Checked(providers, now)
    /\ rc' = Consumed
    /\ UNCHANGED <<now, call_history, attempted, router_calls, issued, memVars, runVars, bc, storeVars>>

\* reset_provider(provider_name)
ResetProvider(provider_name) ==
    /\ rc.pc # "loop"
    /\ provider_name \in DOMAIN providers
    /\ providers' = [providers EXCEPT ![provider_name] = NewProviderState]
    /\ issued' = [issued EXCEPT ![provider_name] = 0]
    /\ rc' = Consumed
    /\ UNCHANGED <<now, call_history, attempted, router_calls, memVars, runVars, bc, storeVars>>

\* the time between two uses of the router
Pauses == {Seconds(ERROR_COOLDOWN_S), Seconds(RATE_LIMIT_COOLDOWN_S)}

TimePasses ==
    /\ rc.pc # "loop"
    /\ \E pause \in Pauses :
          /\ now + pause <= Seconds(MaxClockSeconds)
          /\ now' = now + pause
    /\ rc' = Consumed
    /\ UNCHANGED <<providers, call_history, attempted, router_calls, issued, memVars, runVars, bc, storeVars>>

RouterNext ==
    \/ \E task_type \in TaskTypes : RouterCall(task_type)
    \/ RouterAttempt
    \/ GetProviderStatus
    \/ \E provider_name \in {"groq", "openai"} : ResetProvider(provider_name)
    \/ TimePasses

SpecRouter == RouterInit /\ [][RouterNext]_vars

(***************************************************************************)
(* The feedback specification: add_positive, add_negative, add_adjustment  *)
(* and get_learning_context on one FeedbackManager                         *)
(***************************************************************************)

MaxFeedbackCalls == 4

\* a store that 49 add_positive and 49 add_negative calls have filled before
\* the clock of the specification starts
FilledFeedback ==
    [positive |-> [i \in 1..(FEEDBACK_LIMIT - 1) |->
                      PositiveEntry(T_clean, "LinkedIn", i - 2 * (FEEDBACK_LIMIT - 1))],
     negative |-> [i \in 1..(FEEDBACK_LIMIT - 1) |->
                      NegativeEntry(T_clean, "LinkedIn", <<>>, i - (FEEDBACK_LIMIT - 1))],
     adjustments |-> <<>>,
     stats |-> [total_positive |-> FEEDBACK_LIMIT - 1,
                total_negative |-> FEEDBACK_LIMIT - 1,
                total_adjustments |-> 0]]

FeedbackInit ==
    /\ feedback_data \in {DefaultFeedback, FilledFeedback}
    /\ recorded = [positive |-> feedback_data.positive,
                   negative |-> feedback_data.negative]
    /\ fb_clock = 0
    /\ learning = NoLearning
    /\ bm = Unbuilt(NoFile)
    /\ hw = OneWriter(<<>>)
    /\ dna = [forbidden_words |-> <<>>, personality_traits_is_list |-> TRUE]
    /\ history = <<>>
    /\ history_file = FileWritten(<<>>)
    /\ added = 0
    /\ last_id = 0
    /\ prev_max = 0
    /\ save_failures = 0
    /\ IdleRun
    /\ NoBrandCheck
    /\ IdleRouter

otherThanFeedback ==
    <<dna, history, history_file, added, last_id, prev_max, save_failures, runVars, bc,
      routerVars, bm, hw>>

FeedbackPlatforms == {"LinkedIn", "Twitter"}

Reasons == {<<>>, T_too_long}

AdjustmentTypes == {A_shorter, A_less_emoji}

\* add_positive(content, platform)
AddPositive(content, plat) ==
    /\ fb_clock < MaxFeedbackCalls
    /\ fb_clock' = fb_clock + 1
    /\ feedback_data' =
          AfterAddPositive(feedback_data, PositiveEntry(content, plat, fb_clock'))
    /\ recorded' = [recorded EXCEPT
                       !.positive = Append(@, PositiveEntry(content, plat, fb_clock'))]
    /\ learning' = NoLearning
    /\ UNCHANGED otherThanFeedback

\* add_negative(content, platform, reason)
AddNegative(content, plat, reason) ==
    /\ fb_clock < MaxFeedbackCalls
    /\ fb_clock' = fb_clock + 1
    /\ feedback_data' =
          AfterAddNegative(feedback_data, NegativeEntry(content, plat, reason, fb_clock'))
    /\ recorded' = [recorded EXCEPT
                       !.negative =
                          Append(@, NegativeEntry(content, plat, reason, fb_clock'))]
    /\ learning' = NoLearning
    /\ UNCHANGED otherThanFeedback

\* add_adjustment(adjustment_type)
AddAdjustment(adjustment_type) ==
    /\ fb_clock < MaxFeedbackCalls
    /\ fb_clock' = fb_clock + 1
    /\ feedback_data' =
          AfterAddAdjustment(feedback_data, AdjustmentEntry(adjustment_type, fb_clock'))
    /\ learning' = NoLearning
    /\ UNCHANGED <<recorded, otherThanFeedback>>

\* get_learning_context(platform); platform "" is the call without one
LearningContext(plat) ==
    /\ learning' = [done |-> TRUE, platform |-> plat,
                    text |-> GetLearningContext(feedback_data, plat),
                    parts |-> ContextParts(feedback_data, plat)]
    /\ UNCHANGED <<feedback_data, fb_clock, recorded, otherThanFeedback>>

FeedbackNext ==
    \/ \E plat \in FeedbackPlatforms : AddPositive(T_clean, plat)
    \/ \E plat \in FeedbackPlatforms, reason \in Reasons : AddNegative(T_clean, plat, reason)
    \/ \E adjustment_type \in AdjustmentTypes : AddAdjustment(adjustment_type)
    \/ \E plat \in FeedbackPlatforms \cup {""} : LearningContext(plat)

SpecFeedback == FeedbackInit /\ [][FeedbackNext]_vars

(***************************************************************************)
(* The brand profile specification: BrandMemory built on brand_dna.json,   *)
(* update, update_bulk, add_forbidden_word and remove_forbidden_word;      *)
(* bm.file0 is the document the profile in use was                         *)
(* loaded from, bm.key and bm.returned the last update call and its result *)
(***************************************************************************)

MaxBrandCalls == 3

\* a document written by an earlier run
SavedProfile == Stamped(Assigned(DEFAULT_DNA, "created_at", "t0"), "t0")

\* the documents brand_dna.json may hold when a BrandMemory is built
Documents ==
    {NoFile, BrokenFile, FileOf(SavedProfile),
     FileOf([brand_name |-> "Acme"]),
     FileOf([brand_name |-> "Acme", logo_url |-> "logo.png"]),
     FileOf(Assigned(SavedProfile, "logo_url", "logo.png"))}

BrandMemoryInit ==
    /\ bm \in {Unbuilt(file) : file \in Documents}
    /\ learning = NoLearning
    /\ fb_clock = 0
    /\ recorded = [positive |-> <<>>, negative |-> <<>>]
    /\ hw = OneWriter(<<>>)
    /\ feedback_data = DefaultFeedback
    /\ dna = [forbidden_words |-> <<>>, personality_traits_is_list |-> TRUE]
    /\ history = <<>>
    /\ history_file = FileWritten(<<>>)
    /\ added = 0
    /\ last_id = 0
    /\ prev_max = 0
    /\ save_failures = 0
    /\ IdleRun
    /\ NoBrandCheck
    /\ IdleRouter

otherThanBrandMemory ==
    <<memVars, runVars, bc, routerVars, learning, fb_clock, recorded, hw>>

\* datetime.now().isoformat() at the n-th use of the clock
Stamp(n) == <<"t", n>>

UpdateKeys == {"brand_name", "logo_url", "campaign"}

UpdateValues == {"Acme"}

\* lists given to update("forbidden_words", ...)
WordLists == {<<W_Witajcie>>, <<W_witajcie, W_Witajcie>>}

BulkUpdates ==
    {[brand_name |-> "Acme", logo_url |-> "logo2.png"],
     [campaign |-> "none", forbidden_words |-> <<W_Witajcie, W_dynamiczny>>]}

W_padded == <<" ", "A", "I", " ">>

\* the words given to add_forbidden_word and remove_forbidden_word
Words == {W_Witajcie, W_dynamiczny, W_padded}

\* BrandMemory(filename): __init__ loads the document, or creates and saves
\* the default profile; other_file: built on a file name that has no document
Construct(other_file) ==
    /\ IF bm.pc = "unbuilt" THEN ~other_file ELSE bm.calls < MaxBrandCalls
    /\ LET file == IF other_file THEN NoFile ELSE bm.file
           defaults == ClassDefaults(bm.class_forbidden)
       IN  bm' = [bm EXCEPT !.pc = "loaded",
                            !.file0 = file,
                            !.dna = Loaded(defaults, file, Stamp(bm.clock)),
                            !.file = FileAfterLoad(defaults, file, Stamp(bm.clock)),
                            !.shares_class_list = TakesClassList(file),
                            !.from_defaults = ~(file.exists /\ file.valid),
                            !.clock = @ + 1,
                            !.calls = IF bm.pc = "unbuilt" THEN @ ELSE @ + 1,
                            !.key = "",
                            !.returned = FALSE]
    /\ UNCHANGED otherThanBrandMemory

\* update(key, value)
Update(key, value) ==
    /\ bm.pc # "unbuilt"
    /\ bm.calls < MaxBrandCalls
    /\ IF key \in DOMAIN bm.dna
       THEN LET saved == Stamped(Assigned(bm.dna, key, value), Stamp(bm.clock))
            IN  bm' = [bm EXCEPT !.pc = "updated", !.dna = saved,
                                 !.file = FileOf(saved), !.clock = @ + 1,
                                 !.shares_class_list = @ /\ key # "forbidden_words",
                                 !.calls = @ + 1, !.key = key, !.returned = TRUE]
       ELSE bm' = [bm EXCEPT !.pc = "updated", !.calls = @ + 1, !.key = key,
                             !.returned = FALSE]
    /\ UNCHANGED otherThanBrandMemory

\* the loop of update_bulk: the keys of updates that are in the dna
BulkAssigned(d, updates) ==
    [k \in DOMAIN d |-> IF k \in DOMAIN updates THEN updates[k] ELSE d[k]]

\* update_bulk(updates)
UpdateBulk(updates) ==
    /\ bm.pc # "unbuilt"
    /\ bm.calls < MaxBrandCalls
    /\ LET saved == Stamped(BulkAssigned(bm.dna, updates), Stamp(bm.clock))
       IN  bm' = [bm EXCEPT !.pc = "bulk_updated", !.dna = saved,
                            !.file = FileOf(saved), !.clock = @ + 1,
                            !.shares_class_list =
                                @ /\ "forbidden_words" \notin DOMAIN updates,
                            !.calls = @ + 1, !.key = "", !.returned = FALSE]
    /\ UNCHANGED otherThanBrandMemory

\* a change made in place to self.dna["forbidden_words"], then _save(): the
\* class attribute changes with it when the list is the one of the defaults
ListChanged(words, next_pc) ==
    LET saved == Stamped(Assigned(bm.dna, "forbidden_words", words), Stamp(bm.clock))
    IN  [bm EXCEPT !.pc = next_pc, !.dna = saved, !.file = FileOf(saved),
                   !.class_forbidden = IF bm.shares_class_list THEN words ELSE @,
                   !.clock = @ + 1, !.calls = @ + 1, !.key = "", !.returned = FALSE]

\* add_forbidden_word(word)
AddForbiddenWord(word) ==
    /\ bm.pc # "unbuilt"
    /\ bm.calls < MaxBrandCalls
    /\ LET w == Strip(Lower(word))
       IN  bm' = IF ~InList(w, bm.dna.forbidden_words)
                 THEN ListChanged(Append(bm.dna.forbidden_words, w), "added")
                 ELSE [bm EXCEPT !.pc = "added", !.calls = @ + 1, !.key = "",
                                 !.returned = FALSE]
    /\ UNCHANGED otherThanBrandMemory

\* remove_forbidden_word(word)
RemoveForbiddenWord(word) ==
    /\ bm.pc # "unbuilt"
    /\ bm.calls < MaxBrandCalls
    /\ LET w == Strip(Lower(word))
       IN  bm' = IF InList(w, bm.dna.forbidden_words)
                 THEN ListChanged(Removed(bm.dna.forbidden_words, w), "removed")
                 ELSE [bm EXCEPT !.pc = "removed", !.calls = @ + 1, !.key = "",
                                 !.returned = FALSE]
    /\ UNCHANGED otherThanBrandMemory

BrandMemoryNext ==
    \/ \E other_file \in BOOLEAN : Construct(other_file)
    \/ \E key \in UpdateKeys, value \in UpdateValues : Update(key, value)
    \/ \E words \in WordLists : Update("forbidden_words", words)
    \/ \E updates \in BulkUpdates : UpdateBulk(updates)
    \/ \E word \in Words : AddForbiddenWord(word)
    \/ \E word \in Words : RemoveForbiddenWord(word)

SpecBrandMemory == BrandMemoryInit /\ [][BrandMemoryNext]_vars

(***************************************************************************)
(* AgentEngine.run_quick: one copywriter call outside the pipeline         *)
(***************************************************************************)

E_generation_failed == <<"G", "e", "n", "e", "r", "a", "t", "i", "o", "n", " ", "f", "a", "i", "l", "e", "d">>

\* the AgentResult run_quick returns for the content of the copywriter
QuickResult_alwaysSuccess(content, plat, ls, st) ==
    AgentResult(TRUE, content, plat, ls, st, <<>>)

QuickResult(content, plat, ls, st) ==
    AgentResult(content # <<>>, content, plat, ls, st,
                IF content # <<>> THEN <<>> ELSE E_generation_failed)

\* PromptContext(..., brand_context=brand_context): learning_context keeps
\* its default ""
QuickLearning(fd, plat) == <<>>

\* a feedback store that holds one liked LinkedIn post
LikedFeedback == AfterAddPositive(DefaultFeedback, PositiveEntry(T_clean, "LinkedIn", 0))

QuickInit ==
    /\ \E fw \in ForbiddenLists, traits_ok \in BOOLEAN :
          dna = [forbidden_words |-> fw, personality_traits_is_list |-> traits_ok]
    /\ feedback_data \in {DefaultFeedback, LikedFeedback, ForeignFeedback}
    /\ history \in {<<>>, <<EarlierPost>>}
    /\ history_file = FileWritten(history)
    /\ added = Len(history)
    /\ last_id = 0
    /\ prev_max = 0
    /\ save_failures = 0
    /\ IdleRun
    /\ NoBrandCheck
    /\ IdleRouter
    /\ IdleStores

\* run_quick up to the copywriter call: the state, the brand context
RunQuick(t, p) ==
    /\ pc = "idle"
    /\ topic' = t
    /\ platform' = p
    /\ state' = InitialState(t, p)
    /\ logs' = <<Log("COPYWRITING", "Quick Mode", "bolt",
                     "Tryb szybki - bezposrednie generowanie...", <<>>, 0)>>
    /\ calls' = <<>>
    /\ history0' = history
    /\ file0' = history_file
    /\ pc' = IF PromptContextRaises(dna) THEN "raised" ELSE "quick_copywriter"
    /\ UNCHANGED <<skip_brand_check, current_content, iteration, critique, issues, result,
                   memVars, bc, routerVars, storeVars>>

\* the answers of the provider to the copywriter of run_quick
QuickResponses == Responses("copywriter") \cup {OkResp(<<>>)}

\* the copywriter call and the return; an exception of _call_agent leaves
\* run_quick, which has no handler
QuickCopywriter ==
    /\ pc = "quick_copywriter"
    /\ \E resp \in QuickResponses :
          LET r == CallAgent("copywriter", resp)
          IN  /\ calls' = Append(calls, Invocation("copywriter", FALSE, <<>>, FALSE, <<>>, r,
                                                   QuickLearning(feedback_data, platform)))
              /\ IF r.raised
                 THEN /\ pc' = "raised"
                      /\ UNCHANGED <<logs, state, result>>
                 ELSE /\ logs' = Append(logs, r.log)
                      /\ state' = [state EXCEPT !.final_content = r.content]
                      /\ result' = QuickResult(r.content, platform, logs', state')
                      /\ pc' = "returned"
    /\ UNCHANGED <<topic, platform, skip_brand_check, current_content, iteration, critique,
                   issues, history0, file0, memVars, bc, routerVars, storeVars>>

QuickNext ==
    \/ \E t \in Topics, p \in Platforms : RunQuick(t, p)
    \/ QuickCopywriter

SpecQuick == QuickInit /\ [][QuickNext]_vars

(***************************************************************************)
(* Two PostsHistory instances on one posts_history.json: the one the       *)
(* engine was given, and the one the UI builds when it replaces its own    *)
(***************************************************************************)

MaxWriterCalls == 3

WritersInit ==
    /\ \E h \in {<<>>, <<EarlierPost>>} : hw = OneWriter(h)
    /\ learning = NoLearning
    /\ fb_clock = 0
    /\ recorded = [positive |-> <<>>, negative |-> <<>>]
    /\ bm = Unbuilt(NoFile)
    /\ feedback_data = DefaultFeedback
    /\ dna = [forbidden_words |-> <<>>, personality_traits_is_list |-> TRUE]
    /\ history = <<>>
    /\ history_file = FileWritten(<<>>)
    /\ added = 0
    /\ last_id = 0
    /\ prev_max = 0
    /\ save_failures = 0
    /\ IdleRun
    /\ NoBrandCheck
    /\ IdleRouter

otherThanWriters ==
    <<memVars, runVars, bc, routerVars, learning, fb_clock, recorded, bm>>

HistoryWriters == {"engine", "ui"}

OtherWriter(w) == IF w = "engine" THEN "ui" ELSE "engine"

\* st.session_state.posts_history = PostsHistory(): the UI's store is a new
\* instance loaded from the file; the engine keeps the instance it was given
ReplaceStore ==
    /\ hw.calls < MaxWriterCalls
    /\ hw' = [hw EXCEPT !.mem.ui = LoadHistory(hw.file),
                        !.ui_gen = @ + 1,
                        !.calls = @ + 1]
    /\ UNCHANGED otherThanWriters

\* add_post on the instance of writer w, once the two hold different
\* instances; last_written is the writer whose list the file was last written
\* from, while that list is as it was written
WriterAddPost(w, content, outcome) ==
    /\ hw.ui_gen > 0
    /\ hw.calls < MaxWriterCalls
    /\ LET entry == PostEntry(hw.mem[w], content, "LinkedIn", "Code review", <<>>, 0,
                              hw.clock + 1)
           h == AppendTrimmed(hw.mem[w], entry)
       IN  hw' = [hw EXCEPT
                     !.mem[w] = h,
                     !.file = FileAfterSave(hw.file, h, outcome),
                     !.clock = @ + 1,
                     !.calls = @ + 1,
                     !.last_written = CASE outcome = "written" -> w
                                        [] outcome = "open_failed" ->
                                              IF @ = w THEN "none" ELSE @
                                        [] outcome = "write_failed" -> "none",
                     !.persisted = IF outcome = "written"
                                   THEN @ \cup {[by |-> w, entry |-> entry,
                                                 ui_gen |-> hw.ui_gen]}
                                   ELSE @]
    /\ UNCHANGED otherThanWriters

WritersNext ==
    \/ ReplaceStore
    \/ \E w \in HistoryWriters, content \in {T_clean, T_better}, outcome \in SaveOutcomes :
          WriterAddPost(w, content, outcome)

SpecWriters == WritersInit /\ [][WritersNext]_vars

(***************************************************************************)
(* Termination: a run_pipeline execution, stage by stage, and a            *)
(* ModelRouter.call, attempt by attempt, each from the idle engine; a step *)
(* is the return of a call                                                 *)
(***************************************************************************)

\* no router call has been made: the engine runs its pipeline
RouterQuiet == IdleRouter

\* no pipeline is running: the router is called directly
PipelineQuiet == pc = "idle"

\* a stage of run_pipeline: the agent invocation of the stage returns
PipelineStep == RouterQuiet /\ Next

\* a step of the router: a provider call returns
RouterStep == PipelineQuiet /\ RouterNext

SpecTermination == RouterInit /\ [][PipelineStep \/ RouterStep]_vars

(***************************************************************************)
(* Properties                                                              *)
(***************************************************************************)

\* 7.0 on the model's score scale
SevenPoints == 7 * ScoreScale

\* 5.0, the score of a critique without a score
FivePoints == 5 * ScoreScale

CallIdx == 1..Len(calls)

CriticIdx == {i \in CallIdx : calls[i].role = "critic"}

\* the critic call at i returned, and its text scores at least 7.0
Passing(i) ==
    /\ calls[i].role = "critic"
    /\ ~calls[i].raised
    /\ ExtractScore(calls[i].output) >= SevenPoints

\* the critic call at i returned, and its score is below 7.0; a failed call
\* (no text) counts as 5.0
Low(i) ==
    /\ calls[i].role = "critic"
    /\ ~calls[i].raised
    /\ (IF calls[i].output = <<>> THEN FivePoints ELSE ExtractScore(calls[i].output))
          < SevenPoints

\* an editor call made by the critique loop (the corrective one follows the
\* brand guardian instead)
LoopEditor(i) == i > 1 /\ calls[i].role = "editor" /\ calls[i - 1].role = "critic"

\* the critique loop is over when the call at i is made
LoopEndedBefore(i) ==
    /\ i > 1
    /\ \/ Passing(i - 1)
       \/ /\ calls[i - 1].role = "editor"
          /\ Cardinality({k \in CriticIdx : k < i}) = 2

\* C1: the agent invocations of a run come in the fixed forward order:
\* strategist once and first, copywriter only after a non-empty strategy,
\* critic only with a non-empty draft, a loop editor only directly after a
\* critic that scored below 7.0, brand_guardian at most once and after the
\* loop, and after it at most one corrective editor call.
C1_ForwardOrder ==
    /\ pc = "returned" => Len(calls) >= 1
    /\ \A i \in CallIdx :
          LET c == calls[i]
          IN  /\ (c.role = "strategist") <=> (i = 1)
              /\ c.role = "copywriter" =>
                    i = 2 /\ ~calls[1].raised /\ calls[1].output # <<>>
              /\ c.role = "critic" =>
                    /\ i >= 3
                    /\ calls[2].role = "copywriter" /\ calls[2].output # <<>>
                    /\ c.previous_output # <<>>
                    /\ calls[i - 1].role \in {"copywriter", "editor"}
              /\ c.role = "editor" =>
                    /\ i > 1
                    /\ \/ calls[i - 1].role = "critic" /\ Low(i - 1)
                       \/ calls[i - 1].role = "brand_guardian" /\ i = Len(calls)
              /\ c.role = "brand_guardian" =>
                    /\ LoopEndedBefore(i)
                    /\ \A j \in CallIdx : j # i => calls[j].role # "brand_guardian"
                    /\ \A j \in CallIdx : j > i => j = i + 1 /\ calls[j].role = "editor"

\* a run that went through every stage: two loop passes and a corrective edit
C1_Witness ==
    /\ pc = "returned"
    /\ result.success
    /\ [i \in CallIdx |-> calls[i].role] =
          <<"strategist", "copywriter", "critic", "editor", "critic", "editor",
            "brand_guardian", "editor">>

N_Strategist == <<"S", "t", "r", "a", "t", "e", "g", "i", "s", "t">>

N_Copywriter == <<"C", "o", "p", "y", "w", "r", "i", "t", "e", "r">>

StrategistEmpty ==
    Len(calls) >= 1 /\ ~calls[1].raised /\ calls[1].output = <<>>

CopywriterEmpty ==
    /\ Len(calls) >= 2
    /\ calls[2].role = "copywriter" /\ ~calls[2].raised /\ calls[2].output = <<>>

\* the run returned a failure naming the stage, with the log as it stood
FailedAt(stage_name, agent_name, n_calls) ==
    /\ pc = "returned"
    /\ ~result.success
    /\ result.content = <<>>
    /\ Contains(stage_name, result.error)
    /\ Len(calls) = n_calls
    /\ result.logs = logs
    /\ Len(logs) = 2 * n_calls
    /\ \A k \in 1..n_calls :
          /\ logs[2 * k - 1].message \in {"Analizuje cel i grupe docelowa...",
                                         "Pisze pierwsza wersje..."}
          /\ logs[2 * k].message \in {"Zakonczono pomyslnie", "Blad: {error}"}
    /\ logs[2 * n_calls].agent_name = agent_name
    /\ history = history0
    /\ history_file = file0

\* C2: an empty strategist result, or an empty copywriter result after a
\* strategy, makes run_pipeline return at once with success=false, empty
\* content and an error naming the stage; no later agent is invoked, the log
\* returned holds exactly the entries up to the failed stage, and the post
\* history gains no record.
C2_StageFailureShortCircuits ==
    /\ StrategistEmpty => FailedAt(N_Strategist, "Strategist", 1)
    /\ CopywriterEmpty => FailedAt(N_Copywriter, "Copywriter", 2)

C2_Witness ==
    /\ CopywriterEmpty
    /\ pc = "returned"
    /\ history0 # <<>>

\* C3: the first critic score >= 7.0 ends the loop: no editor call in that
\* pass, no further critic or loop-editor call, and state.iterations is the
\* number of that pass; a first critique >= 7.0 gives one critique, no edit
\* and iterations = 1.
C3_EarlyExit ==
    /\ \A i \in CallIdx :
          Passing(i) =>
             /\ \A j \in CallIdx : j > i => calls[j].role # "critic" /\ ~LoopEditor(j)
             /\ state.iterations = Cardinality({k \in CriticIdx : k <= i})
    /\ (Len(calls) >= 3 /\ Passing(3)) =>
          /\ Cardinality(CriticIdx) = 1
          /\ \A j \in CallIdx : ~LoopEditor(j)
          /\ state.iterations = 1

C3_Witness ==
    /\ pc = "returned"
    /\ result.success
    /\ Len(calls) >= 3
    /\ Passing(3)
    /\ state.iterations = 1

\* the run reached the critique loop: the copywriter returned a draft
ReachedLoop ==
    Len(calls) >= 2 /\ ~calls[2].raised /\ calls[2].output # <<>>

AllCriticsLow == \A i \in CriticIdx : Low(i)

\* no _call_agent raised and the history write went through
NoException == (\A i \in CallIdx : ~calls[i].raised) /\ save_failures = 0

\* two critique/edit pairs, then the brand check, then success
TwoPairsThenSuccess ==
    /\ Cardinality(CriticIdx) = 2
    /\ Len(calls) >= 6
    /\ [i \in 3..6 |-> calls[i].role] =
          [i \in 3..6 |-> IF i \in {3, 5} THEN "critic" ELSE "editor"]
    /\ state.iterations = 2
    /\ skip_brand_check \/ (Len(calls) >= 7 /\ calls[7].role = "brand_guardian")
    /\ result.success

C5_ForbiddenTermOverrides ==
    bc.done =>
       \A k \in 1..Len(bc.forbidden) :
          Contains(Lower(bc.forbidden[k]), Lower(bc.content)) =>
             /\ ~bc.verdict.approved
             /\ Contains(bc.forbidden[k], bc.verdict.issues)

\* upper-case content, a mixed-case list, and a guardian that said OK
C5_Witness ==
    /\ bc.done
    /\ bc.content = T_shout
    /\ bc.response = G_ok
    /\ bc.forbidden = <<W_Witajcie, W_dynamiczny>>
    /\ ~bc.verdict.approved

\* the record a successful run appends
RunRecordAppended ==
    /\ Len(history) = Len(history0) + 1
    /\ SubSeq(history, 1, Len(history0)) = history0
    /\ history[Len(history)].content = result.content
    /\ history[Len(history)].platform = platform
    /\ history[Len(history)].topic = topic
    /\ history_file = FileWritten(history)

\* C6: run_pipeline writes a PostRecord iff it returns success=true: a
\* successful run appends exactly one record with the run's content,
\* platform and topic; a failed run (also one that failed by an exception
\* during finalisation) leaves the store unchanged in memory and on disk.
C6_HistoryWrittenIffSuccess ==
    pc = "returned" =>
       IF result.success
       THEN RunRecordAppended
       ELSE history = history0 /\ history_file = file0

\* an exception was raised inside the try block of the run
RaisedInside == (\E i \in CallIdx : calls[i].raised) \/ save_failures > 0

\* C7: no exception crosses run_pipeline's boundary; every exception,
\* wherever raised, ends in a returned AgentResult with success=false, the
\* exception message as error and a final log entry recording the failure.
C7_NoExceptionEscapes ==
    /\ pc # "raised"
    /\ (pc = "returned" /\ RaisedInside) =>
          /\ ~result.success
          /\ result.error \in {X_nonetype_len, X_read_only, X_no_space}
          /\ result.logs[Len(result.logs)] = CriticalLog(result.error)

\* C8: ids returned by add_post strictly increase, and no two records of
\* the store share an id, also once the store is full and evicts.
C8_IdsMonotonicAndUnique ==
    /\ last_id = 0 \/ last_id > prev_max
    /\ \A i, j \in 1..Len(history) : i # j => history[i].id # history[j].id

\* C9: the store holds at most 200 records, and they are the most recently
\* added ones in insertion order.
C9_BoundedFifo ==
    /\ Len(history) = Min(added, 200)
    /\ \A i \in 1..Len(history) : history[i].created_at = added - Len(history) + i

\* 205 posts added: 200 left, the oldest 5 gone
C9_Witness ==
    /\ added = 205
    /\ Len(history) = 200
    /\ history[1].created_at = 6
    /\ history[200].created_at = 205


\* the requests of the call in progress that went to a provider
AttemptsOn(provider) == {i \in 1..Len(attempted) : attempted[i].provider = provider}

RateLimitErrors == {R_rate_limit, R_429}

\* the call found both providers available, every request it sent to the one
\* it tried first failed with a rate-limit error and every request it sent
\* to the other one succeeded
PreferredLimitedOtherFine(preferred, other) ==
    /\ rc.available0 = {preferred, other}
    /\ attempted # <<>>
    /\ attempted[1].provider = preferred
    /\ \A i \in AttemptsOn(preferred) :
          ~attempted[i].outcome.ok /\ attempted[i].outcome.error \in RateLimitErrors
    /\ \A i \in AttemptsOn(other) : attempted[i].outcome.ok

\* what one router call leaves when the preferred provider was rate
\* limited and the other one answered
FellBackTo(preferred, other) ==
    /\ rc.response.success
    /\ rc.response.provider = other
    /\ Len(call_history) = rc.history_len0 + 2
    /\ ~call_history[rc.history_len0 + 1].success
    /\ call_history[rc.history_len0 + 2].success
    /\ providers[preferred].status = "rate_limited"

\* C10 as stated: with two providers of which the preferred one fails with
\* a rate-limit error and the other succeeds, one router call returns
\* success carrying the second provider's id after exactly two logged
\* attempts, and leaves the first provider rate-limited with a cooldown
\* expiry later than the current time.
C10_Original ==
    \A preferred, other \in {"groq", "openai"} :
       (/\ preferred # other
        /\ rc.pc = "returned"
        /\ PreferredLimitedOtherFine(preferred, other)) =>
          /\ FellBackTo(preferred, other)
          /\ providers[preferred].cooldown_until > now

\* C10, amended: the same, the cooldown expiry being later than the current
\* time when the successful request and the pause before it took less than
\* the 60-second cooldown.
C10_FallbackOnRateLimit ==
    \A preferred, other \in {"groq", "openai"} :
       (/\ preferred # other
        /\ rc.pc = "returned"
        /\ PreferredLimitedOtherFine(preferred, other)) =>
          /\ FellBackTo(preferred, other)
          /\ (SLEEP_MS + attempted[2].latency < Seconds(RATE_LIMIT_COOLDOWN_S)
                 => providers[preferred].cooldown_until > now)
          /\ (SLEEP_MS + attempted[2].latency >= Seconds(RATE_LIMIT_COOLDOWN_S)
                 => providers[preferred].cooldown_until < now)

\* groq answered with a rate-limit error, openai answered
C10_Witness ==
    /\ rc.pc = "returned"
    /\ PreferredLimitedOtherFine("groq", "openai")
    /\ attempted[1].outcome.error = R_rate_limit
    /\ Len(attempted) = 2
    /\ rc.response.provider = "openai"
    /\ providers["groq"].status = "rate_limited"
    /\ providers["groq"].cooldown_until > now

\* the router call has returned a failure after at least one request
FailedAfterAttempts ==
    /\ rc.pc = "returned"
    /\ ~rc.response.success
    /\ attempted # <<>>

\* C11: a router call that returns failure after at least one provider
\* attempt returns an error that carries the error text of the last failed
\* attempt, at the retry ceiling as well as when no untried or available
\* backend remains.
C11_FailureCarriesLastError ==
    FailedAfterAttempts =>
       Contains(attempted[Len(attempted)].outcome.error, rc.response.error)

\* selection can return a model of the provider now
Selectable(p) ==
    \E task_type \in TaskTypes :
       \E i \in 1..Len(SelectFrom(providers, now, task_type)) :
          SelectFrom(providers, now, task_type)[i].provider = p

\* C12: a provider whose call failed with an error that is not a rate
\* limit is skipped by selection during its 30-second cooldown and can be
\* selected again once the cooldown has elapsed, without a reset.
C12_GenericFailureIsTemporary ==
    \A p \in DOMAIN providers :
       providers[p].status = "error" =>
          (Selectable(p) <=> now > providers[p].cooldown_until)

\* the step sends a request to the provider
Requested(p) ==
    /\ Len(attempted') = Len(attempted) + 1
    /\ attempted'[Len(attempted')].provider = p

\* rate limited, the clock not past the expiry
InCooldown(p) ==
    providers[p].status = "rate_limited" /\ now <= providers[p].cooldown_until

\* rate limited, the clock past the expiry
CooldownOver(p) ==
    providers[p].status = "rate_limited" /\ now > providers[p].cooldown_until

\* the step asks the providers is_available()
AvailabilityChecked ==
    \/ GetProviderStatus
    \/ RouterAttempt /\ rc.attempts < MAX_RETRIES

\* the step is reset_provider(p)
ResetOf(p) == rc.pc # "loop" /\ providers'[p] = NewProviderState

LazyRecoveryStep(p) ==
    /\ InCooldown(p) =>
          /\ ~Requested(p)
          /\ \A task_type \in TaskTypes :
                \A i \in 1..Len(SelectFrom(providers, now, task_type)) :
                   SelectFrom(providers, now, task_type)[i].provider # p
          /\ providers'[p].status = "rate_limited" \/ ResetOf(p)
    /\ (CooldownOver(p) /\ AvailabilityChecked) =>
          providers'[p].status = "available" \/ Requested(p)
    /\ (CooldownOver(p) /\ ~AvailabilityChecked) =>
          providers'[p].status = "rate_limited" \/ ResetOf(p)

\* C13: a rate-limited provider is neither selected nor called while the
\* clock is not past its cooldown expiry; the first availability check
\* after the expiry switches it back to available; without such a check or
\* a reset its status does not change.
C13_LazyRecovery == [][\A p \in DOMAIN providers : LazyRecoveryStep(p)]_vars

\* groq was rate limited and an availability check after the expiry has
\* switched it back
C13_Witness ==
    /\ "groq" \in DOMAIN providers
    /\ providers["groq"].status = "available"
    /\ providers["groq"].cooldown_until > 0
    /\ now > providers["groq"].cooldown_until

\* the backends the call in progress has sent a request to, in order
AttemptedKeys == [i \in 1..Len(attempted) |-> <<attempted[i].provider, attempted[i].model>>]

\* an available model of the task type that the call has not tried
UntriedAlternative ==
    \E i \in 1..Len(GetAvailableModels(providers, now, rc.task_type, TRUE)) :
       ModelKey(GetAvailableModels(providers, now, rc.task_type, TRUE)[i])
          \notin rc.tried_models

\* C14: within one router call at most 3 backends are attempted and none
\* twice; a call that has failed with fewer than 3 attempts has no untried
\* available alternative left; every attempt appends exactly one entry to
\* the call history.
C14_BoundedDistinctAttempts ==
    rc.pc \in {"loop", "returned"} =>
       /\ Len(attempted) <= 3
       /\ \A i, j \in 1..Len(attempted) : i # j => AttemptedKeys[i] # AttemptedKeys[j]
       /\ Len(call_history) = rc.history_len0 + Len(attempted)
       /\ \A i \in 1..Len(attempted) :
             /\ call_history[rc.history_len0 + i].provider = attempted[i].provider
             /\ call_history[rc.history_len0 + i].model = attempted[i].model
             /\ call_history[rc.history_len0 + i].success = attempted[i].outcome.ok
       /\ (rc.pc = "returned" /\ ~rc.response.success /\ Len(attempted) < 3) =>
             ~UntriedAlternative

\* three attempts on three backends: groq was rate limited, the openai
\* request outlasted the cooldown and failed, a second groq model was tried
C14_Witness ==
    /\ rc.pc = "returned"
    /\ Len(attempted) = 3
    /\ attempted[1].provider = "groq"
    /\ attempted[2].provider = "openai"
    /\ attempted[3].provider = "groq"
    /\ attempted[1].model # attempted[3].model
    /\ ~rc.response.success

\* the latest request of the call in progress
LastAttempt == attempted[Len(attempted)]

\* when the latest request failed: the pause after it is over
FailureTime == now - SLEEP_MS

\* C15: every failed provider call, rate limit or not, leaves the error
\* text as last error and the time of the failure as last error time in
\* the provider's state, and sets the cooldown: 60 seconds for a rate
\* limit, 30 seconds otherwise.
C15_FailureRecorded ==
    (rc.pc = "loop" /\ attempted # <<>>) =>
       LET st == providers[LastAttempt.provider]
           error == LastAttempt.outcome.error
       IN  /\ st.last_error = error
           /\ st.last_error_time = FailureTime
           /\ st.cooldown_until =
                 FailureTime + (IF LooksRateLimited(LastAttempt.provider, error)
                                THEN Seconds(60) ELSE Seconds(30))

SectionHeaders == {H_positive, H_negative, H_adjustments}

\* nothing to tell: no positive and no negative record of the platform, no
\* adjustment type twice among the last 10 adjustments
NoSignal(fd, plat) ==
    /\ OfPlatform(fd.positive, plat) = <<>>
    /\ OfPlatform(fd.negative, plat) = <<>>
    /\ \A t \in AdjustmentTypes : CountOf(LastN(fd.adjustments, 10), t) < 2

\* C16: get_learning_context returns the empty string whenever no signal
\* exists, and never emits a section header with no item under it.
C16_NoEmptySections ==
    learning.done =>
       /\ NoSignal(feedback_data, learning.platform) => learning.text = <<>>
       /\ \A i \in 1..Len(learning.parts) :
             learning.parts[i] \in SectionHeaders =>
                /\ i < Len(learning.parts)
                /\ learning.parts[i + 1] \notin SectionHeaders

\* the list holds the latest entries recorded, at most 50, in their order
LatestOf(list, all) ==
    /\ Len(list) <= 50
    /\ Len(list) = Min(Len(all), 50)
    /\ \A i \in 1..Len(list) : list[i] = all[Len(all) - Len(list) + i]

\* C17: the positive and the negative list each hold at most 50 entries,
\* namely the most recently recorded ones of their polarity in insertion
\* order; recording one polarity leaves the other list as it was.
C17_FeedbackBoundedFifo ==
    /\ LatestOf(feedback_data.positive, recorded.positive)
    /\ LatestOf(feedback_data.negative, recorded.negative)

\* the 51st positive record has evicted the oldest; the 49 negative records
\* are untouched
C17_Witness ==
    /\ Len(recorded.positive) = 51
    /\ Len(feedback_data.positive) = 50
    /\ feedback_data.positive[50].timestamp = fb_clock
    /\ feedback_data.positive[1] = recorded.positive[2]
    /\ feedback_data.negative = FilledFeedback.negative

\* C18: with no provider configured every router call returns a failure
\* with an explanatory error, whatever the task type and however many calls
\* came before, and nothing is appended to the call history.
C18_NoProviders ==
    DOMAIN providers = {} =>
       /\ call_history = <<>>
       /\ attempted = <<>>
       /\ rc.pc = "loop" => rc.attempts = 0 /\ rc.tried_models = {}
       /\ rc.pc = "returned" =>
             /\ ~rc.response.success
             /\ rc.response.error = E_no_models

\* the second call of a router without providers has returned
C18_Witness ==
    /\ DOMAIN providers = {}
    /\ router_calls = 2
    /\ rc.pc = "returned"
    /\ rc.task_type = "quick"
    /\ rc.response.error = E_no_models
    /\ call_history = <<>>

\* the provider is configured and answers is_available() with True now
AvailableNow(p) ==
    /\ p \in DOMAIN providers
    /\ \/ providers[p].status = "available"
       \/ providers[p].status = "rate_limited" /\ now > providers[p].cooldown_until

Catalog == {DEFAULT_MODELS[i] : i \in 1..Len(DEFAULT_MODELS)}

AvailableConfigs == {m \in Catalog : AvailableNow(m.provider)}

SupportingConfigs(task_type) == {m \in AvailableConfigs : task_type \in m.task_types}

LeastPriorityOf(m, S) == m \in S /\ \A x \in S : m.priority <= x.priority

\* C19: select_model returns a configuration of an available provider: one
\* of least priority among the available ones that support the task type
\* when there is one, else one of least priority among all available ones;
\* it returns nothing exactly when no provider is available.
C19_SelectionByPriority ==
    \A task_type \in TaskTypes :
       LET selected == SelectFrom(providers, now, task_type)
       IN  /\ selected = <<>> <=> AvailableConfigs = {}
           /\ selected # <<>> =>
                 /\ AvailableNow(selected[1].provider)
                 /\ IF SupportingConfigs(task_type) # {}
                    THEN LeastPriorityOf(selected[1], SupportingConfigs(task_type))
                    ELSE LeastPriorityOf(selected[1], AvailableConfigs)

\* groq is in its cooldown: the openai model of priority 10 is selected for
\* a strategy task, the one of priority 11 for a quick task
C19_Witness ==
    /\ DOMAIN providers = {"groq", "openai"}
    /\ providers["groq"].status = "rate_limited"
    /\ now <= providers["groq"].cooldown_until
    /\ providers["openai"].status = "available"
    /\ SelectFrom(providers, now, "strategy")[1].model_id = "gpt-4o-mini"
    /\ SelectFrom(providers, now, "quick")[1].model_id = "gpt-3.5-turbo"

\* the profile in use was loaded from a document that exists and parses
LoadedFromDocument == bm.pc # "unbuilt" /\ bm.file0.exists /\ bm.file0.valid

\* C20: a profile loaded from a persisted document has exactly the keys of
\* the default schema, the schema keys the document lacks have their default
\* values, and update refuses a key that is not in the schema.
C20_LoadKeepsSchema ==
    LoadedFromDocument =>
       /\ bm.pc = "loaded" =>
             /\ DOMAIN bm.dna = DOMAIN DEFAULT_DNA
             /\ \A k \in DOMAIN DEFAULT_DNA \ DOMAIN bm.file0.data :
                   bm.dna[k] = DEFAULT_DNA[k]
       /\ bm.pc = "updated" /\ bm.key \notin DOMAIN DEFAULT_DNA => ~bm.returned

\* the calls whose output may become the content: the copywriter and the
\* editors that returned text
Writers == {i \in CallIdx : /\ calls[i].role \in {"copywriter", "editor"}
                            /\ ~calls[i].raised
                            /\ calls[i].output # <<>>}

\* the most recent non-empty output among the draft and the editor outputs
LatestOutput == calls[CHOOSE i \in Writers : \A j \in Writers : j <= i].output

ReturnsLatestContent ==
    /\ result.success
    /\ result.content # <<>>
    /\ result.content = state.final_content
    /\ result.content = LatestOutput

GuardianIdx == {i \in CallIdx : calls[i].role = "brand_guardian"}

\* the verdict on the content the brand guardian at i was shown and on what
\* it answered
VerdictAt(i) ==
    CheckBrandCompliance(calls[i].previous_output, calls[i].output, dna.forbidden_words)

\* a corrective editor call: the editor call that follows the brand guardian
Corrective(i) == i > 1 /\ calls[i].role = "editor" /\ calls[i - 1].role = "brand_guardian"

\* the brand guardian at g returned and the check failed: one corrective
\* editor call follows, guided by the issues, and nothing after it
CorrectedOnce(g) ==
    /\ Len(calls) = g + 1
    /\ Corrective(g + 1)
    /\ calls[g + 1].has_critique
    /\ calls[g + 1].critique = S_brand_issues \o VerdictAt(g).issues
    /\ calls[g + 1].previous_output = calls[g].previous_output
    /\ ~state.brand_approved

\* the run returned what the corrective editor wrote, or what the brand
\* guardian was shown when the corrective editor wrote nothing
ReturnsCorrection(g) ==
    /\ result.success
    /\ ~result.state.brand_approved
    /\ result.content = IF calls[g + 1].output # <<>> THEN calls[g + 1].output
                        ELSE calls[g].previous_output

\* the brand check passed or was skipped: approved, and no corrective call
NoCorrection ==
    /\ \A i \in CallIdx : ~Corrective(i)
    /\ skip_brand_check => GuardianIdx = {}
    /\ pc \in {"final", "returned"} /\ (\A i \in CallIdx : ~calls[i].raised)
          => state.brand_approved

BrandStep(with_success) ==
    (pc = "returned" /\ ReachedLoop) =>
       /\ Cardinality(GuardianIdx) <= 1
       /\ \A g \in GuardianIdx :
             ~calls[g].raised =>
                IF VerdictAt(g).approved
                THEN NoCorrection
                ELSE /\ CorrectedOnce(g)
                     /\ with_success => ReturnsCorrection(g)
       /\ skip_brand_check => NoCorrection

C23_RequestCountCountsEveryCall ==
    \A p \in DOMAIN providers : providers[p].requests_count = issued[p]

\* what run_quick has asked of the agents: at most the copywriter, once,
\* with no previous output, no critique and no learning context
OnlyCopywriter ==
    /\ Len(calls) <= 1
    /\ \A i \in CallIdx :
          /\ calls[i].role = "copywriter"
          /\ ~calls[i].has_previous /\ calls[i].previous_output = <<>>
          /\ ~calls[i].has_critique /\ calls[i].critique = <<>>
          /\ calls[i].learning_context = <<>>

QuickReturn ==
    /\ Len(calls) = 1
    /\ result.success <=> calls[1].output # <<>>
    /\ result.content = calls[1].output
    /\ result.error = IF result.success THEN <<>> ELSE E_generation_failed

QuickRun ==
    /\ OnlyCopywriter
    /\ pc = "returned" => QuickReturn
    /\ pc # "idle" => history = history0 /\ history_file = file0

StoresUntouched ==
    /\ history' = history
    /\ history_file' = history_file
    /\ feedback_data' = feedback_data
    /\ dna' = dna
    /\ bm' = bm

NoCaseDuplicates(words) ==
    \A i, j \in 1..Len(words) : i < j => Lower(words[i]) # Lower(words[j])

\* C25: the forbidden-word list of a brand profile never holds two entries
\* that are equal ignoring case, whatever update, update_bulk,
\* add_forbidden_word and remove_forbidden_word calls were made.
C25_CaseFoldedSet ==
    bm.pc # "unbuilt" => NoCaseDuplicates(bm.dna.forbidden_words)

\* C28: changing a profile that was created from the defaults never changes
\* the defaults: the list of forbidden words of the class attribute stays as
\* written, and a profile created from the defaults later in the process
\* starts with it.
C28_DefaultsIsolated ==
    /\ bm.class_forbidden = DEFAULT_DNA.forbidden_words
    /\ bm.pc = "loaded" /\ bm.from_defaults =>
          bm.dna.forbidden_words = DEFAULT_DNA.forbidden_words

InSeq(e, s) == \E i \in 1..Len(s) : s[i] = e

\* the record r was persisted by one instance while the other, still held,
\* had been loaded before: the other lacks it, the file lacks it once the
\* other has written, and the two copies differ
LostToOther(r) ==
    LET other == OtherWriter(r.by)
    IN  hw.ui_gen = r.ui_gen =>
           /\ InSeq(r.entry, hw.mem[r.by])
           /\ ~InSeq(r.entry, hw.mem[other])
           /\ hw.last_written = other => ~InSeq(r.entry, hw.file.data)
           /\ hw.mem.engine # hw.mem.ui

\* C26: with two PostsHistory instances on one file, a write leaves in the
\* file exactly the in-memory list of the instance that wrote (last write
\* wins): a record one instance persisted is gone from the file when the
\* other writes next, and the two lists differ.
C26_LastWriteWins ==
    /\ hw.last_written # "none" => hw.file = FileWritten(hw.mem[hw.last_written])
    /\ \A r \in hw.persisted : LostToOther(r)

\* the engine persisted a record, then the UI's instance wrote: the engine's
\* record is in the engine's list and no longer in the file
C26_Witness ==
    /\ hw.last_written = "ui"
    /\ \E r \in hw.persisted :
          /\ r.by = "engine"
          /\ hw.ui_gen = r.ui_gen
          /\ InSeq(r.entry, hw.mem.engine)
          /\ ~InSeq(r.entry, hw.file.data)
    /\ Len(hw.file.data) = Len(hw.mem.ui)

\* the entries _call_agent built, in the order they stand in the log
OutcomeEntries(ls) ==
    SelectSeq(ls, LAMBDA l : l.message \in {"Zakonczono pomyslnie", "Blad: {error}"})

\* the invocations that returned (one that raised built no entry)
ReturnedCalls == SelectSeq(calls, LAMBDA c : ~c.raised)

\* C27: the log run_pipeline returns holds exactly one outcome entry for
\* every agent invocation of the run that returned, in invocation order.
C27_AuditLogComplete ==
    pc = "returned" =>
       [i \in 1..Len(OutcomeEntries(result.logs)) |->
           OutcomeEntries(result.logs)[i].agent_name]
         = [i \in 1..Len(ReturnedCalls) |-> AgentName(ReturnedCalls[i].role)]

CallsOf(role) == Cardinality({i \in CallIdx : calls[i].role = role})

LoopEditors == Cardinality({i \in CallIdx : LoopEditor(i)})

Correctives == Cardinality({i \in CallIdx : Corrective(i)})

\* the budget of a run: 8 invocations, 3 provider attempts per router call
RunBounds ==
    /\ Len(calls) <= 8
    /\ CallsOf("strategist") <= 1
    /\ CallsOf("copywriter") <= 1
    /\ CallsOf("critic") <= 2
    /\ LoopEditors <= 2
    /\ CallsOf("brand_guardian") <= 1
    /\ Correctives <= 1
    /\ CallsOf("editor") = LoopEditors + Correctives
    /\ state.iterations \in 0..2
    /\ rc.attempts <= 3
    /\ Len(attempted) <= 3

RunEnded == pc \in {"returned", "raised"}

Running == pc \notin {"idle", "returned", "raised"}

\* how far a run has come: the stages in order, two places per loop pass
Rank ==
    CASE pc = "idle" -> 0
      [] pc = "strategist" -> 1
      [] pc = "copywriter" -> 2
      [] pc = "critic" -> 3 + 2 * iteration
      [] pc = "editor" -> 4 + 2 * iteration
      [] pc = "brand_guardian" -> 7
      [] pc = "brand_editor" -> 8
      [] pc = "final" -> 9
      [] RunEnded -> 10

\* every return of an agent call takes the run further, every failed
\* provider attempt is counted
Progress ==
    /\ Running => Rank' > Rank
    /\ rc.pc = "loop" => rc'.pc # "loop" \/ rc'.attempts = rc.attempts + 1

\* C29: a run_pipeline execution ends once each of its calls has returned:
\* every step takes it further through at most 10 places, with at most 8
\* agent invocations (1 strategist, 1 copywriter, 2 critic, 2 loop editor,
\* 1 brand guardian, 1 corrective editor) and state.iterations between 0 and
\* 2; a router call ends after at most 3 provider attempts.
C29_Terminates == [](RunBounds /\ Rank <= 10) /\ [][Progress]_vars

\* a run that used its whole budget of invocations
C29_Witness ==
    /\ RunEnded
    /\ Len(calls) = 8
    /\ CallsOf("critic") = 2 /\ LoopEditors = 2 /\ Correctives = 1
    /\ state.iterations = 2

\* the last critic call of the run
LastCritic == CHOOSE k \in CriticIdx : \A j \in CriticIdx : j <= k

\* C30: in the record a successful run writes, the score is the one the
\* critic gave to the content of the record: the last critique of the run
\* was made on the content that is returned and stored.
C30_ScoreOfStoredContent ==
    (pc = "returned" /\ result.success) =>
       /\ history[Len(history)].content = result.content
       /\ history[Len(history)].score = ExtractScore(calls[LastCritic].output)
       /\ calls[LastCritic].previous_output = result.content
====
